---- MODULE Spec2Model ----
(***************************************************************************)
(* A model of the persistence core of the Meituan crawler:                 *)
(*   - database/db_manager.py       the local SQLite store,                *)
(*   - database/supabase_manager.py the remote Supabase store,             *)
(*   - scripts/sync_databases.py    the reconciler between the two.        *)
(* Tables are sets of rows; a row is a record of its columns.  Of the many *)
(* payload columns of each table, which every INSERT and UPDATE statement  *)
(* writes together from the same record, one is kept as their              *)
(* representative (unit_price, composition_data, dish_income).             *)
(***************************************************************************)
EXTENDS Integers, Sequences, FiniteSets, TLC

(***************************************************************************)
(* Bounds of the model.                                                    *)
(***************************************************************************)
\* quantities, amounts, revenues and order counts range over 0..MaxVal
MaxVal == 1
\* longest record list handed to one local write call
MaxBatch == 2

Vals == 0..MaxVal
\* values of the representative payload column
Payloads == {10, 20}

(***************************************************************************)
(* Names and None.                                                         *)
(***************************************************************************)
\* Store names are sequences of characters, so that Python's substring test
\* (a in b) is computed and not assumed.
NameCanon1 == <<"n", "1">>
NameAlias1 == <<"n", "g", "1">>
NameCanon2 == <<"y", "2">>
NameFuzzy2 == <<"y", "2", "x">>
NameUnknown == <<"z">>
NoName == <<>>

\* None, for identifiers and names
None == "None"

(***************************************************************************)
(* State.                                                                  *)
(***************************************************************************)
VARIABLES
    mt_stores,                \* local table mt_stores
    mt_equity_package_sales,  \* local table mt_equity_package_sales
    mt_business_summary,      \* local table mt_business_summary
    mt_dish_sales,            \* local table mt_dish_sales
    call,                     \* the last local write call and the stats it returned
    cache,                    \* _cache_loaded, _restaurant_cache, _restaurant_name_cache
    sb_equity_package_sales,  \* remote table mt_equity_package_sales
    sb_business_summary,      \* remote table mt_business_summary
    sb_dish_sales,            \* remote table mt_dish_sales
    rsave,                    \* the remote save call in progress, or the last one
    sync,                     \* the sync step in progress, or the last one
    crawl,                    \* the DatabaseManager of the run and the last crawl's result
    lookup,                   \* the last get_restaurant_id_by_name call and what it returned
    run,                      \* the uploads of one run of main: managers made, selects issued
    threads,                  \* DatabaseManager._lock and the threads using get_connection
    decoder,                  \* the header cells given to _flatten_headers and what it built
    rowparse,                 \* the table row given to _parse_row and what it returned
    orch,                     \* the report loop of main: attempts, retries, results
    pages,                    \* _extract_all_pages: the page shown and the pages read
    wait                      \* the wait for the results of the dish-sales query

localVars == <<mt_stores, mt_equity_package_sales, mt_business_summary, mt_dish_sales, call>>

remoteVars == <<cache, sb_equity_package_sales, sb_business_summary, sb_dish_sales, rsave>>

parseVars == <<decoder, rowparse, orch, pages, wait>>

procVars == <<crawl, lookup, run, threads, parseVars>>

vars == <<localVars, remoteVars, sync, procVars>>

ZeroStats == [inserted |-> 0, updated |-> 0, skipped |-> 0]

\* raised: the call has ended in an exception instead of returning its stats
\* count is the length of the list the call was given; error is 0, or the
\* position of the record whose statement raised sqlite3.Error (one past the
\* last record: conn.commit() raised)
NoCall == [op |-> "none", stats |-> ZeroStats, raised |-> FALSE, count |-> 0, error |-> 0]

\* a counter that is never advanced
BumpNothing(stats, field) == stats

Bump(stats, field) == [stats EXCEPT ![field] = @ + 1]

(***************************************************************************)
(* Local store: save_equity_package_sales.                                 *)
(***************************************************************************)
\* INSERT INTO mt_stores ... ON CONFLICT(org_code) DO UPDATE SET store_name
UpsertStore(stores, org_code, store_name) ==
    {s \in stores : s.org_code # org_code}
        \cup {[org_code |-> org_code, store_name |-> store_name]}

\* SelectEquity finding no row, whatever the table holds
SelectEquityNothing(table, record) == {}

\* SELECT ... FROM mt_equity_package_sales WHERE org_code = ? AND date = ? AND package_name = ?
SelectEquity(table, record) ==
    {row \in table : /\ row.org_code = record.org_code
                     /\ row.date = record.date
                     /\ row.package_name = record.package_name}

\* the row an INSERT INTO mt_equity_package_sales makes of a record
EquityRow(record) ==
    [org_code |-> record.org_code, date |-> record.date,
     package_name |-> record.package_name, unit_price |-> record.unit_price,
     quantity_sold |-> record.quantity_sold, total_sales |-> record.total_sales]

\* UpdateEquityRow writing the two compared columns only
UpdateEquityRowComparedOnly(existing, record) ==
    [existing EXCEPT !.quantity_sold = record.quantity_sold,
                     !.total_sales = record.total_sales]

\* UPDATE mt_equity_package_sales SET ... WHERE id = existing['id']
UpdateEquityRow(existing, record) ==
    [existing EXCEPT !.unit_price = record.unit_price,
                     !.quantity_sold = record.quantity_sold,
                     !.total_sales = record.total_sales]

\* EquityIsHigher with >= for >: a tie counts as higher
EquityIsHigherOrEqual(record, existing) ==
    \/ record.quantity_sold >= existing.quantity_sold
    \/ record.total_sales >= existing.total_sales

\* EquityIsHigher with the comparisons turned round
EquityIsLower(record, existing) ==
    \/ record.quantity_sold < existing.quantity_sold
    \/ record.total_sales < existing.total_sales

\* the test that decides between UPDATE and SKIP
EquityIsHigher(record, existing) ==
    \/ record.quantity_sold > existing.quantity_sold
    \/ record.total_sales > existing.total_sales

\* one iteration of the loop over records, on the open connection conn
EquityStep(conn, record) ==
    LET stores1 == UpsertStore(conn.stores, record.org_code, record.store_name)
        found == SelectEquity(conn.table, record)
    IN  IF found = {}
        THEN [stores |-> stores1,
              table |-> conn.table \cup {EquityRow(record)},
              stats |-> Bump(conn.stats, "inserted")]
        ELSE LET existing == CHOOSE row \in found : TRUE
             IN  IF EquityIsHigher(record, existing)
                 THEN [stores |-> stores1,
                       table |-> (conn.table \ {existing})
                                    \cup {UpdateEquityRow(existing, record)},
                       stats |-> Bump(conn.stats, "updated")]
                 ELSE [stores |-> stores1,
                       table |-> conn.table,
                       stats |-> Bump(conn.stats, "skipped")]

RECURSIVE EquityLoopReversed(_, _, _)
\* EquityLoop taking the records last to first
EquityLoopReversed(conn, records, i) ==
    IF i > Len(records) THEN conn
    ELSE EquityLoopReversed(EquityStep(conn, records[Len(records) + 1 - i]),
                            records, i + 1)

RECURSIVE EquityLoop(_, _, _)
\* for record in records: ... , from the i-th record on
EquityLoop(conn, records, i) ==
    IF i > Len(records) THEN conn
    ELSE EquityLoop(EquityStep(conn, records[i]), records, i + 1)

\* what save_equity_package_sales(records) commits and returns, from the
\* tables stores and table: stats stay zero and nothing is opened when
\* records is empty
EquitySaved(stores, table, records) ==
    LET conn == [stores |-> stores, table |-> table, stats |-> ZeroStats]
    IN  IF records = <<>> THEN conn ELSE EquityLoop(conn, records, 1)

\* the keys that the loop body reads with record[...] before any statement
EquityRequired ==
    {"org_code", "store_name", "date", "package_name", "quantity_sold", "total_sales"}

\* record['...'] raises KeyError for one of the records
EquityKeyError(records) ==
    \E k \in 1..Len(records) : ~(EquityRequired \subseteq DOMAIN records[k])

\* DatabaseManager.save_equity_package_sales(records), on the local store.
\* A KeyError is no sqlite3.Error: it leaves the call, and the connection is
\* closed without a commit, so the rows of the records before it are lost.
save_equity_package_sales(records) ==
    IF EquityKeyError(records)
    THEN /\ call' = [op |-> "save_equity_package_sales", stats |-> ZeroStats,
                     raised |-> TRUE, count |-> Len(records), error |-> 0]
         /\ UNCHANGED <<mt_stores, mt_equity_package_sales, mt_business_summary,
                        mt_dish_sales>>
    ELSE \E done \in {EquitySaved(mt_stores, mt_equity_package_sales, records)} :
            /\ mt_stores' = done.stores
            /\ mt_equity_package_sales' = done.table
            /\ call' = [op |-> "save_equity_package_sales", stats |-> done.stats,
                        raised |-> FALSE, count |-> Len(records), error |-> 0]
            /\ UNCHANGED <<mt_business_summary, mt_dish_sales>>

\* the records whose statements have run when the one at position err raises
RunBefore(records, err) == SubSeq(records, 1, err - 1)

\* save_equity_package_sales(records) when a statement of the record at err,
\* or conn.commit(), raises sqlite3.Error: get_connection rolls back, and the
\* except clause of the call returns the stats as counted so far
save_equity_package_sales_interrupted(records, err) ==
    /\ records # <<>>
    /\ err \in 1..(Len(records) + 1)
    /\ ~EquityKeyError(RunBefore(records, err))
    /\ call' = [op |-> "save_equity_package_sales",
                stats |-> EquitySaved(mt_stores, mt_equity_package_sales,
                                      RunBefore(records, err)).stats,
                raised |-> FALSE, count |-> Len(records), error |-> err]
    /\ UNCHANGED <<mt_stores, mt_equity_package_sales, mt_business_summary,
                   mt_dish_sales>>

(***************************************************************************)
(* Local store: save_business_summary.                                     *)
(***************************************************************************)
\* SELECT ... FROM mt_business_summary WHERE store_name = ? AND business_date = ?
SelectBusiness(table, record) ==
    {row \in table : /\ row.store_name = record.store_name
                     /\ row.business_date = record.business_date}

\* the row an INSERT INTO mt_business_summary makes of a record
BusinessRow(record) ==
    [store_name |-> record.store_name, business_date |-> record.business_date,
     revenue |-> record.revenue, order_count |-> record.order_count,
     composition_data |-> record.composition_data]

\* UPDATE mt_business_summary SET ... WHERE id = existing['id']
UpdateBusinessRow(existing, record) ==
    [existing EXCEPT !.revenue = record.revenue,
                     !.order_count = record.order_count,
                     !.composition_data = record.composition_data]

\* should_update
BusinessShouldUpdate(record, existing, force_update) ==
    \/ record.revenue > existing.revenue
    \/ record.order_count > existing.order_count
    \/ force_update

\* one iteration of the loop over records
BusinessStep(conn, record, force_update) ==
    IF record.store_name = NoName \/ record.business_date = ""
    THEN [conn EXCEPT !.stats = Bump(conn.stats, "skipped")]
    ELSE LET found == SelectBusiness(conn.table, record)
         IN  IF found = {}
             THEN [conn EXCEPT !.table = conn.table \cup {BusinessRow(record)},
                               !.stats = Bump(conn.stats, "inserted")]
             ELSE LET existing == CHOOSE row \in found : TRUE
                  IN  IF BusinessShouldUpdate(record, existing, force_update)
                      THEN [conn EXCEPT
                               !.table = (conn.table \ {existing})
                                            \cup {UpdateBusinessRow(existing, record)},
                               !.stats = Bump(conn.stats, "updated")]
                      ELSE [conn EXCEPT !.stats = Bump(conn.stats, "skipped")]

RECURSIVE BusinessLoop(_, _, _, _)
BusinessLoop(conn, records, force_update, i) ==
    IF i > Len(records) THEN conn
    ELSE BusinessLoop(BusinessStep(conn, records[i], force_update),
                      records, force_update, i + 1)

\* what save_business_summary(records, force_update) commits and returns
BusinessSaved(table, records, force_update) ==
    LET conn == [table |-> table, stats |-> ZeroStats]
    IN  IF records = <<>> THEN conn
        ELSE BusinessLoop(conn, records, force_update, 1)

\* DatabaseManager.save_business_summary(records, force_update)
save_business_summary(records, force_update) ==
    \E done \in {BusinessSaved(mt_business_summary, records, force_update)} :
        /\ mt_business_summary' = done.table
        /\ call' = [op |-> "save_business_summary", stats |-> done.stats, raised |-> FALSE,
                    count |-> Len(records), error |-> 0]
        /\ UNCHANGED <<mt_stores, mt_equity_package_sales, mt_dish_sales>>

\* save_business_summary(records, force_update) when a statement of the
\* record at err, or conn.commit(), raises sqlite3.Error
save_business_summary_interrupted(records, force_update, err) ==
    /\ records # <<>>
    /\ err \in 1..(Len(records) + 1)
    /\ call' = [op |-> "save_business_summary",
                stats |-> BusinessSaved(mt_business_summary, RunBefore(records, err),
                                        force_update).stats,
                raised |-> FALSE, count |-> Len(records), error |-> err]
    /\ UNCHANGED <<mt_stores, mt_equity_package_sales, mt_business_summary,
                   mt_dish_sales>>

(***************************************************************************)
(* Local store: save_dish_sales.                                           *)
(***************************************************************************)
\* SELECT ... FROM mt_dish_sales WHERE store_name = ? AND business_date = ? AND dish_name = ?
SelectDish(table, record) ==
    {row \in table : /\ row.store_name = record.store_name
                     /\ row.business_date = record.business_date
                     /\ row.dish_name = record.dish_name}

\* the row an INSERT INTO mt_dish_sales makes of a record
DishRow(record) ==
    [store_name |-> record.store_name, org_code |-> record.org_code,
     business_date |-> record.business_date,
     dish_name |-> record.dish_name, sales_quantity |-> record.sales_quantity,
     sales_amount |-> record.sales_amount, dish_income |-> record.dish_income]

\* UPDATE mt_dish_sales SET ... WHERE id = existing['id']
UpdateDishRow(existing, record) ==
    [existing EXCEPT !.org_code = record.org_code,
                     !.sales_quantity = record.sales_quantity,
                     !.sales_amount = record.sales_amount,
                     !.dish_income = record.dish_income]

\* should_update
DishShouldUpdate(record, existing, force_update) ==
    \/ record.sales_quantity > existing.sales_quantity
    \/ record.sales_amount > existing.sales_amount
    \/ force_update

\* one iteration of the loop over records
DishStep(conn, record, force_update) ==
    LET found == SelectDish(conn.table, record)
    IN  IF found = {}
        THEN [conn EXCEPT !.table = conn.table \cup {DishRow(record)},
                          !.stats = Bump(conn.stats, "inserted")]
        ELSE LET existing == CHOOSE row \in found : TRUE
             IN  IF DishShouldUpdate(record, existing, force_update)
                 THEN [conn EXCEPT
                          !.table = (conn.table \ {existing})
                                       \cup {UpdateDishRow(existing, record)},
                          !.stats = Bump(conn.stats, "updated")]
                 ELSE [conn EXCEPT !.stats = Bump(conn.stats, "skipped")]

RECURSIVE DishLoop(_, _, _, _)
DishLoop(conn, records, force_update, i) ==
    IF i > Len(records) THEN conn
    ELSE DishLoop(DishStep(conn, records[i], force_update),
                  records, force_update, i + 1)

\* what save_dish_sales(records, force_update) commits and returns
DishSaved(table, records, force_update) ==
    LET conn == [table |-> table, stats |-> ZeroStats]
    IN  IF records = <<>> THEN conn
        ELSE DishLoop(conn, records, force_update, 1)

\* DatabaseManager.save_dish_sales(records, force_update)
save_dish_sales(records, force_update) ==
    \E done \in {DishSaved(mt_dish_sales, records, force_update)} :
        /\ mt_dish_sales' = done.table
        /\ call' = [op |-> "save_dish_sales", stats |-> done.stats, raised |-> FALSE,
                    count |-> Len(records), error |-> 0]
        /\ UNCHANGED <<mt_stores, mt_equity_package_sales, mt_business_summary>>

\* save_dish_sales(records, force_update) when a statement of the record at
\* err, or conn.commit(), raises sqlite3.Error
save_dish_sales_interrupted(records, force_update, err) ==
    /\ records # <<>>
    /\ err \in 1..(Len(records) + 1)
    /\ call' = [op |-> "save_dish_sales",
                stats |-> DishSaved(mt_dish_sales, RunBefore(records, err),
                                    force_update).stats,
                raised |-> FALSE, count |-> Len(records), error |-> err]
    /\ UNCHANGED <<mt_stores, mt_equity_package_sales, mt_business_summary,
                   mt_dish_sales>>

(***************************************************************************)
(* Remote store: identity resolution.                                      *)
(***************************************************************************)
\* MEITUAN_STORE_NAME_MAP: report name -> restaurant_name, as key/value pairs
MEITUAN_STORE_NAME_MAP == <<[key |-> NameAlias1, value |-> NameCanon1]>>

\* the rows of the remote table master_restaurant, in the order a select
\* returns them; the second restaurant has no meituan_org_code
MasterRestaurant ==
    <<[id |-> "uuid1", meituan_org_code |-> "MD00006", restaurant_name |-> NameCanon1],
      [id |-> "uuid2", meituan_org_code |-> None, restaurant_name |-> NameCanon2]>>

\* A Python dict is a sequence of key/value pairs in insertion order.
DictHas(dict, key) == \E k \in 1..Len(dict) : dict[k].key = key

DictGet(dict, key) ==
    IF DictHas(dict, key)
    THEN dict[CHOOSE k \in 1..Len(dict) : dict[k].key = key].value
    ELSE None

\* dict[key] = value: a present key keeps its place
DictSet(dict, key, value) ==
    IF DictHas(dict, key)
    THEN [k \in 1..Len(dict) |->
             IF dict[k].key = key THEN [key |-> key, value |-> value] ELSE dict[k]]
    ELSE Append(dict, [key |-> key, value |-> value])

\* a in b, for Python strings
IsSubstring(a, b) ==
    \E k \in 0..(Len(b) - Len(a)) : SubSeq(b, k + 1, k + Len(a)) = a

RECURSIVE LoadOrgCodes(_, _)
\* the loop of _load_restaurant_cache, for _restaurant_cache
LoadOrgCodes(rows, k) ==
    IF k = 0 THEN <<>>
    ELSE LET dict == LoadOrgCodes(rows, k - 1)
         IN  IF rows[k].meituan_org_code # None
             THEN DictSet(dict, rows[k].meituan_org_code, rows[k].id)
             ELSE dict

RECURSIVE LoadNames(_, _)
\* the loop of _load_restaurant_cache, for _restaurant_name_cache
LoadNames(rows, k) ==
    IF k = 0 THEN <<>>
    ELSE LET dict == LoadNames(rows, k - 1)
         IN  IF rows[k].restaurant_name # NoName
             THEN DictSet(dict, rows[k].restaurant_name, rows[k].id)
             ELSE dict

\* the caches after _load_restaurant_cache(), whose select succeeds (ok) or
\* raises: [loaded, codes, names]
LoadRestaurantCache(c, ok) ==
    IF c.loaded \/ ~ok THEN c
    ELSE [loaded |-> TRUE,
          codes |-> LoadOrgCodes(MasterRestaurant, Len(MasterRestaurant)),
          names |-> LoadNames(MasterRestaurant, Len(MasterRestaurant))]

\* step 3 of get_restaurant_id_by_name: the first cached name that contains
\* the store name or is contained in it
FuzzyMatch(names, store_name) ==
    LET hits == {k \in 1..Len(names) :
                    \/ IsSubstring(names[k].key, store_name)
                    \/ IsSubstring(store_name, names[k].key)}
    IN  IF hits = {} THEN None
        ELSE names[CHOOSE k \in hits : \A j \in hits : k <= j].value

\* get_restaurant_id_by_name with step 3 before steps 1 and 2
RestaurantIdFuzzyFirst(names, store_name) ==
    IF FuzzyMatch(names, store_name) # None THEN FuzzyMatch(names, store_name)
    ELSE IF DictHas(names, store_name) THEN DictGet(names, store_name)
    ELSE None

\* get_restaurant_id_by_name, on a loaded or empty name cache
RestaurantIdByName(names, store_name) ==
    LET mapped_name == DictGet(MEITUAN_STORE_NAME_MAP, store_name)
    IN  IF DictHas(MEITUAN_STORE_NAME_MAP, store_name) /\ DictHas(names, mapped_name)
        THEN DictGet(names, mapped_name)
        ELSE IF DictHas(names, store_name)
             THEN DictGet(names, store_name)
             ELSE FuzzyMatch(names, store_name)

(***************************************************************************)
(* Remote store: the manager's fields and the call in progress.            *)
(***************************************************************************)
\* SupabaseManager.BATCH_SIZE is 50; scaled down so that a call of a few
\* records has several batches
BATCH_SIZE == 2

MAX_RETRIES == 3

INITIAL_RETRY_DELAY == 2

\* a cap on the rows of the remote equity table
MaxRemoteRows == 2

Min(a, b) == IF a <= b THEN a ELSE b

\* SupabaseManager.__init__: the caches are empty and not loaded
EmptyCache == [loaded |-> FALSE, codes |-> <<>>, names |-> <<>>]

ZeroRemoteStats ==
    [inserted |-> 0, updated |-> 0, skipped |-> 0, failed |-> 0, unknown_stores |-> <<>>]

\* _retry_with_backoff is not running and has not run in this call
NoRetry ==
    [attempt |-> 0, delay |-> 0, outcomes |-> <<>>, sleeps |-> <<>>, result |-> "none"]

\* the locals of _retry_with_backoff on entry; outcomes and sleeps record what
\* the invocation has done: the result of each operation() call, each sleep
FreshRetry ==
    [attempt |-> 1, delay |-> INITIAL_RETRY_DELAY, outcomes |-> <<>>, sleeps |-> <<>>,
     result |-> "running"]

\* no remote save has been called; resolved records the restaurant_id found
\* for each record of the call
IdleSave ==
    [pc |-> "idle", op |-> "none", records |-> <<>>, resolved |-> <<>>,
     valid_records |-> <<>>, i |-> 0, retry |-> NoRetry, stats |-> ZeroRemoteStats]

InSeq(x, seq) == \E k \in 1..Len(seq) : seq[k] = x

\* the unknown-store branch of the batched saves: one entry per unknown
\* store name, one skip per record
CountUnknown(stats, store_name) ==
    [stats EXCEPT !.unknown_stores = IF InSeq(store_name, @) THEN @
                                     ELSE Append(@, store_name),
                  !.skipped = @ + 1]

\* the unknown-store branch of the equity save: seen_unknown holds org codes
CountUnknownCode(stats, org_code, store_name) ==
    [stats EXCEPT !.unknown_stores =
                      IF \E k \in 1..Len(@) : @[k].org_code = org_code THEN @
                      ELSE Append(@, [org_code |-> org_code, store_name |-> store_name]),
                  !.skipped = @ + 1]

\* one call of _load_restaurant_cache() while st.fails selects are still to raise
TryLoad(st) ==
    IF st.cache.loaded THEN st
    ELSE IF st.fails > 0
    THEN [st EXCEPT !.fails = @ - 1, !.selects = @ + 1, !.failed = @ + 1]
    ELSE [st EXCEPT !.cache = LoadRestaurantCache(@, TRUE), !.selects = @ + 1]

\* the locals of a batched save before its first record
Phase1Start(c, fails) ==
    [cache |-> c, fails |-> fails, resolved |-> <<>>, valid |-> <<>>,
     stats |-> ZeroRemoteStats, raised |-> FALSE, selects |-> 0, failed |-> 0]

(***************************************************************************)
(* Remote store: the batched saves (business summary, dish sales).         *)
(***************************************************************************)
\* json.loads(composition): the local column holds the JSON text, the remote
\* column the parsed value
JsonLoads(text) == [parsed |-> text]

\* a composition_data text that is not JSON
NotJson == 99

\* json.loads(text) raises json.JSONDecodeError
JsonRaises(text) == text = NotJson

\* json.dumps(composition_data, ensure_ascii=False)
JsonDumps(value) == value.parsed

\* supabase_record of save_business_summary
BusinessTransform(record, restaurant_id) ==
    [restaurant_id |-> restaurant_id, business_date |-> record.business_date,
     revenue |-> record.revenue, order_count |-> record.order_count,
     composition_data |-> JsonLoads(record.composition_data)]

\* supabase_record of save_dish_sales
DishTransform(record, restaurant_id) ==
    [restaurant_id |-> restaurant_id, business_date |-> record.business_date,
     dish_name |-> record.dish_name, sales_quantity |-> record.sales_quantity,
     sales_amount |-> record.sales_amount, dish_income |-> record.dish_income]

\* a variant that keeps the record of an unknown store
ResolveKeepsUnknown(st, store_name, supabase_record) ==
    LET ld == TryLoad(st)
        restaurant_id == RestaurantIdByName(ld.cache.names, store_name)
    IN  [ld EXCEPT !.valid = Append(@, [supabase_record EXCEPT !.restaurant_id = restaurant_id]),
                   !.resolved = Append(@, restaurant_id)]

\* phase 1 for one record that has its required fields: the restaurant_id is
\* looked up by name; an unknown store is skipped, a known one is transformed
Resolve(st, store_name, supabase_record) ==
    LET ld == TryLoad(st)
        restaurant_id == RestaurantIdByName(ld.cache.names, store_name)
    IN  IF restaurant_id = None
        THEN [ld EXCEPT !.stats = CountUnknown(@, store_name),
                        !.resolved = Append(@, None)]
        ELSE [ld EXCEPT !.valid = Append(@, [supabase_record EXCEPT !.restaurant_id = restaurant_id]),
                        !.resolved = Append(@, restaurant_id)]

\* a record without a required field is skipped before any lookup
MissingField(st) ==
    [st EXCEPT !.stats.skipped = @ + 1, !.resolved = Append(@, None)]

\* the body of the phase 1 loop of save_business_summary; json.loads is
\* called for a record of a known store, outside any try
BusinessPhase1Step(st, record) ==
    IF record.store_name = NoName \/ record.business_date = ""
    THEN MissingField(st)
    ELSE LET ld == TryLoad(st)
         IN  IF /\ RestaurantIdByName(ld.cache.names, record.store_name) # None
                /\ JsonRaises(record.composition_data)
             THEN [ld EXCEPT !.raised = TRUE]
             ELSE Resolve(st, record.store_name, BusinessTransform(record, None))

\* the body of the phase 1 loop of save_dish_sales
DishPhase1Step(st, record) ==
    IF record.store_name = NoName \/ record.business_date = "" \/ record.dish_name = ""
    THEN MissingField(st)
    ELSE Resolve(st, record.store_name, DishTransform(record, None))

RECURSIVE Phase1(_, _, _, _)
\* the phase 1 loop over the first k records
Phase1(op, st, records, k) ==
    IF k = 0 THEN st
    ELSE LET before == Phase1(op, st, records, k - 1)
         IN  IF before.raised THEN before
             ELSE IF op = "save_business_summary"
             THEN BusinessPhase1Step(before, records[k])
             ELSE DishPhase1Step(before, records[k])

\* a batched save up to its first batch: an empty list returns at once; else
\* the cache is pre-loaded and the records are resolved and transformed
BeginBatchedSaveOn(c, op, records, fails) ==
    /\ rsave.pc \in {"idle", "returned", "raised"}
    /\ fails > 0 => ~c.loaded
    /\ \E st \in {IF records = <<>> THEN Phase1Start(c, 0)
                  ELSE Phase1(op, TryLoad(Phase1Start(c, fails)), records, Len(records))} :
           /\ cache' = st.cache
           /\ rsave' = IF st.raised
                       THEN [IdleSave EXCEPT !.pc = "raised", !.op = op,
                                             !.records = records]
                       ELSE [pc |-> IF st.valid = <<>> THEN "returned" ELSE "batch",
                             op |-> op, records |-> records, resolved |-> st.resolved,
                             valid_records |-> st.valid, i |-> 0, retry |-> NoRetry,
                             stats |-> st.stats]
    /\ UNCHANGED <<sb_equity_package_sales, sb_business_summary, sb_dish_sales>>

\* a batched save entered with the manager's caches as they are
BeginBatchedSave(op, records, fails) == BeginBatchedSaveOn(cache, op, records, fails)

\* SupabaseManager.save_business_summary(records), phase 1
sb_save_business_summary(records, fails) ==
    BeginBatchedSave("save_business_summary", records, fails)

\* SupabaseManager.save_dish_sales(records), phase 1
sb_save_dish_sales(records, fails) ==
    BeginBatchedSave("save_dish_sales", records, fails)

SameRemoteBusinessKey(a, b) ==
    a.restaurant_id = b.restaurant_id /\ a.business_date = b.business_date

SameRemoteDishKey(a, b) ==
    /\ a.restaurant_id = b.restaurant_id
    /\ a.business_date = b.business_date
    /\ a.dish_name = b.dish_name

RECURSIVE UpsertBusiness(_, _, _)
\* upsert(batch, on_conflict='restaurant_id,营业日期'): each record replaces
\* the row of its key, or is added
UpsertBusiness(table, batch, k) ==
    IF k = 0 THEN table
    ELSE LET before == UpsertBusiness(table, batch, k - 1)
         IN  {row \in before : ~SameRemoteBusinessKey(row, batch[k])} \cup {batch[k]}

RECURSIVE UpsertDish(_, _, _)
\* upsert(batch, on_conflict='restaurant_id,营业日期,菜品名称')
UpsertDish(table, batch, k) ==
    IF k = 0 THEN table
    ELSE LET before == UpsertDish(table, batch, k - 1)
         IN  {row \in before : ~SameRemoteDishKey(row, batch[k])} \cup {batch[k]}

\* batch = valid_records[i:i + BATCH_SIZE]
CurrentBatch(f) ==
    SubSeq(f.valid_records, f.i + 1, Min(f.i + BATCH_SIZE, Len(f.valid_records)))

\* a variant that does not double the delay
SameDelay(delay) == delay

\* delay *= 2
NextDelay(delay) == delay * 2

\* stats["failed"] += len(batch)
FailedBatch(stats, batch) == [stats EXCEPT !.failed = @ + Len(batch)]

\* stats["updated"] += len(batch)
UpdatedBatch(stats, batch) == [stats EXCEPT !.updated = @ + Len(batch)]

\* a variant that leaves the batch loop at the first failed batch
AfterBatchStops(f, retry, stats) ==
    [f EXCEPT !.retry = retry, !.stats = stats, !.i = @ + BATCH_SIZE,
              !.pc = IF f.i + BATCH_SIZE >= Len(f.valid_records) \/ retry.result = "False"
                     THEN "returned" ELSE "batch"]

\* the batch loop after _retry_with_backoff has returned for one batch
AfterBatch(f, retry, stats) ==
    [f EXCEPT !.retry = retry, !.stats = stats, !.i = @ + BATCH_SIZE,
              !.pc = IF f.i + BATCH_SIZE >= Len(f.valid_records)
                     THEN "returned" ELSE "batch"]

\* One pass of the loop of _retry_with_backoff on the current batch: the
\* upsert is called and succeeds (ok) or raises.  On success the helper returns
\* True; on a failure before the last attempt it sleeps and doubles the delay;
\* on the last failure it returns False.  The caller counts the batch and moves
\* to the next one.
retry_with_backoff(ok) ==
    /\ rsave.pc = "batch"
    /\ \E batch \in {CurrentBatch(rsave)},
          r \in {IF rsave.retry.result = "running" THEN rsave.retry ELSE FreshRetry} :
       LET called == [r EXCEPT !.outcomes = Append(@, ok)]
       IN  IF ok
           THEN /\ rsave' = AfterBatch(rsave, [called EXCEPT !.result = "True"],
                                       UpdatedBatch(rsave.stats, batch))
                /\ IF rsave.op = "save_business_summary"
                   THEN /\ sb_business_summary' =
                               UpsertBusiness(sb_business_summary, batch, Len(batch))
                        /\ UNCHANGED sb_dish_sales
                   ELSE /\ sb_dish_sales' = UpsertDish(sb_dish_sales, batch, Len(batch))
                        /\ UNCHANGED sb_business_summary
           ELSE /\ IF r.attempt < MAX_RETRIES
                   THEN rsave' = [rsave EXCEPT !.retry =
                                      [called EXCEPT !.sleeps = Append(@, r.delay),
                                                     !.delay = NextDelay(@),
                                                     !.attempt = @ + 1]]
                   ELSE rsave' = AfterBatch(rsave, [called EXCEPT !.result = "False"],
                                            FailedBatch(rsave.stats, batch))
                /\ UNCHANGED <<sb_business_summary, sb_dish_sales>>
    /\ UNCHANGED <<cache, sb_equity_package_sales>>

(***************************************************************************)
(* Remote store: the equity package sales save, record by record.          *)
(***************************************************************************)
\* save_equity_package_sales(records) up to its loop, on the caches c: an empty
\* list returns at once; else the cache is pre-loaded, and the select of the
\* load succeeds (ok) or raises
BeginEquitySave(c, records, ok) ==
    /\ rsave.pc \in {"idle", "returned", "raised"}
    /\ ~ok => ~c.loaded /\ records # <<>>
    /\ cache' = IF records = <<>> THEN c ELSE LoadRestaurantCache(c, ok)
    /\ rsave' = [IdleSave EXCEPT !.pc = IF records = <<>> THEN "returned" ELSE "record",
                                 !.op = "save_equity_package_sales",
                                 !.records = records]
    /\ UNCHANGED <<sb_equity_package_sales, sb_business_summary, sb_dish_sales>>

\* SupabaseManager.save_equity_package_sales(records), entered with the
\* manager's caches as they are
sb_save_equity_package_sales(records, ok) == BeginEquitySave(cache, records, ok)

\* .eq('restaurant_id', ...).eq('date', ...).eq('package_name', ...)
RemoteEquityMatches(table, restaurant_id, record) ==
    {row \in table : /\ row.restaurant_id = restaurant_id
                     /\ row.date = record.date
                     /\ row.package_name = record.package_name}

\* the row _insert_record adds; the remote store generates the id
RemoteEquityRow(table, restaurant_id, record) ==
    [id |-> Cardinality(table) + 1, restaurant_id |-> restaurant_id,
     date |-> record.date, package_name |-> record.package_name,
     unit_price |-> record.unit_price, quantity_sold |-> record.quantity_sold,
     total_sales |-> record.total_sales]

\* _update_record: update(data).eq('id', record_id)
RemoteEquityUpdate(table, record_id, record) ==
    {IF row.id = record_id
     THEN [row EXCEPT !.unit_price = record.unit_price,
                      !.quantity_sold = record.quantity_sold,
                      !.total_sales = record.total_sales]
     ELSE row : row \in table}

\* new_quantity > old_quantity or new_sales > old_sales
RemoteEquityIsHigher(record, existing) ==
    \/ record.quantity_sold > existing.quantity_sold
    \/ record.total_sales > existing.total_sales

\* the frame after one record of the loop has been counted under `field`
EquityCounted(f, restaurant_id, field) ==
    [f EXCEPT !.i = @ + 1,
              !.resolved = Append(@, restaurant_id),
              !.stats[field] = @ + 1,
              !.pc = IF f.i + 1 = Len(f.records) THEN "returned" ELSE "record"]

\* One pass of the loop of save_equity_package_sales.  The existence lookup
\* returns a matching row, or None when there is none or when the select
\* raises (lookup_ok false); the insert or update is executed (write_ok) or
\* raises, which counts the record as failed.
remote_equity_record(lookup_ok, write_ok) ==
    /\ rsave.pc = "record"
    /\ \E record \in {rsave.records[rsave.i + 1]} :
       \E restaurant_id \in {DictGet(cache.codes, record.org_code)} :
       \E matches \in {RemoteEquityMatches(sb_equity_package_sales, restaurant_id, record)} :
           IF restaurant_id = None
           THEN /\ lookup_ok /\ write_ok
                /\ rsave' = [EquityCounted(rsave, None, "skipped") EXCEPT
                                !.stats = CountUnknownCode(rsave.stats, record.org_code,
                                                           record.store_name)]
                /\ UNCHANGED sb_equity_package_sales
           ELSE IF ~lookup_ok \/ matches = {}
           THEN \* existing is None: INSERT
                IF write_ok
                THEN /\ matches = {} \/ Cardinality(sb_equity_package_sales) < MaxRemoteRows
                     /\ sb_equity_package_sales' = sb_equity_package_sales \cup
                            {RemoteEquityRow(sb_equity_package_sales, restaurant_id, record)}
                     /\ rsave' = EquityCounted(rsave, restaurant_id, "inserted")
                ELSE /\ rsave' = EquityCounted(rsave, restaurant_id, "failed")
                     /\ UNCHANGED sb_equity_package_sales
           ELSE \E existing \in matches :
                IF RemoteEquityIsHigher(record, existing)
                THEN IF write_ok
                     THEN /\ sb_equity_package_sales' =
                                 RemoteEquityUpdate(sb_equity_package_sales, existing.id, record)
                          /\ rsave' = EquityCounted(rsave, restaurant_id, "updated")
                     ELSE /\ rsave' = EquityCounted(rsave, restaurant_id, "failed")
                          /\ UNCHANGED sb_equity_package_sales
                ELSE /\ write_ok
                     /\ rsave' = EquityCounted(rsave, restaurant_id, "skipped")
                     /\ UNCHANGED sb_equity_package_sales
    /\ UNCHANGED <<cache, sb_business_summary, sb_dish_sales>>

\* SupabaseManager.refresh_restaurant_cache(): the select succeeds (ok) or raises
refresh_restaurant_cache(ok) ==
    /\ rsave.pc \in {"idle", "returned", "raised"}
    /\ cache' = LoadRestaurantCache(EmptyCache, ok)
    /\ UNCHANGED <<sb_equity_package_sales, sb_business_summary, sb_dish_sales, rsave>>

(***************************************************************************)
(* Two-way sync between the local and the remote store.                    *)
(***************************************************************************)
\* count before a sync step has stored one in self.stats
Unset == "unset"

\* DatabaseSync.__init__: no sync step has run.  op, dry_run: the step and
\* the mode of the run; source_ok, keys_ok: whether the read of the source
\* records and the read of the destination keys returned; handed: the
\* records passed to the write path; count: the number stored in self.stats
NoSync ==
    [op |-> "none", dry_run |-> FALSE, pc |-> "none", source_ok |-> TRUE,
     keys_ok |-> TRUE, handed |-> {}, count |-> Unset]

\* the orders in which a select without ORDER BY can return the rows S
SeqsOf(S) ==
    {order \in [1..Cardinality(S) -> S] :
        \A j, k \in 1..Cardinality(S) : j # k => order[j] # order[k]}

\* the embedded master_restaurant(...) of a remote row
RestaurantOf(restaurant_id) ==
    MasterRestaurant[CHOOSE k \in 1..Len(MasterRestaurant) :
                         MasterRestaurant[k].id = restaurant_id]

RECURSIVE ReverseNameMap(_)
\* reverse_name_map = {v: k for k, v in MEITUAN_STORE_NAME_MAP.items()}
ReverseNameMap(k) ==
    IF k = 0 THEN <<>>
    ELSE DictSet(ReverseNameMap(k - 1), MEITUAN_STORE_NAME_MAP[k].value,
                 MEITUAN_STORE_NAME_MAP[k].key)

\* reverse_name_map.get(supabase_name, supabase_name)
MeituanName(supabase_name) ==
    LET reverse_name_map == ReverseNameMap(Len(MEITUAN_STORE_NAME_MAP))
    IN  IF DictHas(reverse_name_map, supabase_name)
        THEN DictGet(reverse_name_map, supabase_name)
        ELSE supabase_name

\* _get_local_equity_keys: the empty set when the read raises
LocalEquityKeys(table, ok) ==
    IF ok THEN {<<row.org_code, row.date, row.package_name>> : row \in table} ELSE {}

\* _get_local_business_keys: the empty set when the read raises
LocalBusinessKeys(table, ok) ==
    IF ok THEN {<<row.store_name, row.business_date>> : row \in table} ELSE {}

\* _get_cloud_equity_keys after its cache load: the rows of restaurants
\* without org code give no key; the empty set when the select raises
CloudEquityKeys(table, ok) ==
    IF ok
    THEN {<<RestaurantOf(row.restaurant_id).meituan_org_code, row.date, row.package_name>> :
             row \in {r \in table : RestaurantOf(r.restaurant_id).meituan_org_code # None}}
    ELSE {}

\* _get_cloud_business_keys: the restaurant names mapped back to report
\* names; the empty set when the select raises
CloudBusinessKeys(table, ok) ==
    IF ok
    THEN {<<MeituanName(RestaurantOf(row.restaurant_id).restaurant_name), row.business_date>> :
             row \in {r \in table : /\ RestaurantOf(r.restaurant_id).restaurant_name # NoName
                                    /\ r.business_date # ""}}
    ELSE {}

\* x or default
OrDefault(x, default) == IF x = 0 THEN default ELSE x

\* the record pull_equity_package_sales builds from a remote row
PullEquityRecord(row) ==
    LET restaurant == RestaurantOf(row.restaurant_id)
    IN  [org_code |-> restaurant.meituan_org_code,
         store_name |-> IF restaurant.restaurant_name = NoName
                        THEN restaurant.meituan_org_code
                        ELSE restaurant.restaurant_name,
         date |-> row.date, package_name |-> row.package_name,
         unit_price |-> OrDefault(row.unit_price, 99),
         quantity_sold |-> OrDefault(row.quantity_sold, 0),
         total_sales |-> OrDefault(row.total_sales, 0)]

\* records_to_add of pull_equity_package_sales, as a set
PullEquityToAdd(table, local_keys) ==
    {PullEquityRecord(row) :
        row \in {r \in table :
                    /\ RestaurantOf(r.restaurant_id).meituan_org_code # None
                    /\ <<RestaurantOf(r.restaurant_id).meituan_org_code, r.date,
                         r.package_name>> \notin local_keys}}

\* the record pull_business_summary builds from a remote row
PullBusinessRecord(row) ==
    [store_name |-> MeituanName(RestaurantOf(row.restaurant_id).restaurant_name),
     business_date |-> row.business_date,
     revenue |-> row.revenue, order_count |-> row.order_count,
     composition_data |-> JsonDumps(row.composition_data)]

\* records_to_add of pull_business_summary, as a set
PullBusinessToAdd(table, local_keys) ==
    {PullBusinessRecord(row) :
        row \in {r \in table :
                    /\ RestaurantOf(r.restaurant_id).restaurant_name # NoName
                    /\ r.business_date # ""
                    /\ <<MeituanName(RestaurantOf(r.restaurant_id).restaurant_name),
                         r.business_date>> \notin local_keys}}

\* db.get_equity_sales(): the fact rows joined with mt_stores
GetEquitySales(stores, table) ==
    {[org_code |-> row.org_code, store_name |-> st.store_name, date |-> row.date,
      package_name |-> row.package_name, unit_price |-> row.unit_price,
      quantity_sold |-> row.quantity_sold, total_sales |-> row.total_sales] :
        <<row, st>> \in {pair \in table \X stores : pair[1].org_code = pair[2].org_code}}

\* records_to_push of push_equity_package_sales, as a set
PushEquityToPush(local_records, cloud_keys) ==
    {record \in local_records :
        <<record.org_code, record.date, record.package_name>> \notin cloud_keys}

\* records_to_push of push_business_summary, as a set
PushBusinessToPush(local_records, cloud_keys) ==
    {record \in local_records :
        <<record.store_name, record.business_date>> \notin cloud_keys}

\* the sync step that has handed `handed` over, or nothing: in a dry run the
\* count of records_to_add is stored, else what the write call reports
SyncFrame(op, dry_run, source_ok, keys_ok, pc, handed, count) ==
    [op |-> op, dry_run |-> dry_run, pc |-> pc, source_ok |-> source_ok,
     keys_ok |-> keys_ok, handed |-> handed, count |-> count]

\* a step that writes nothing: the source read raised, nothing is missing,
\* or the run is a dry run
NothingHanded(op, dry_run, source_ok, keys_ok, to_add) ==
    sync' = SyncFrame(op, dry_run, source_ok, keys_ok, "done", {},
                      IF to_add # {} THEN Cardinality(to_add) ELSE Unset)

\* a pull that takes no notice of self.dry_run
PullEquityIgnoringDryRun(dry_run, select_ok, keys_ok) ==
    /\ sync.pc # "saving"
    /\ \E to_add \in {IF select_ok
                      THEN PullEquityToAdd(sb_equity_package_sales,
                               LocalEquityKeys(mt_equity_package_sales, keys_ok))
                      ELSE {}} :
          IF to_add # {}
          THEN \E records_to_add \in SeqsOf(to_add) :
                  /\ save_equity_package_sales(records_to_add)
                  /\ sync' = SyncFrame("pull_equity_package_sales", dry_run, select_ok,
                                       keys_ok, "done", to_add,
                                       call'.stats.inserted + call'.stats.updated)
          ELSE /\ NothingHanded("pull_equity_package_sales", dry_run, select_ok,
                                keys_ok, to_add)
               /\ UNCHANGED localVars
    /\ UNCHANGED remoteVars

\* DatabaseSync.pull_equity_package_sales(): the remote select and the local
\* key read return (select_ok, keys_ok) or raise
pull_equity_package_sales(dry_run, select_ok, keys_ok) ==
    /\ sync.pc # "saving"
    /\ \E to_add \in {IF select_ok
                      THEN PullEquityToAdd(sb_equity_package_sales,
                               LocalEquityKeys(mt_equity_package_sales, keys_ok))
                      ELSE {}} :
          IF to_add # {} /\ ~dry_run
          THEN \E records_to_add \in SeqsOf(to_add) :
                  /\ save_equity_package_sales(records_to_add)
                  /\ sync' = SyncFrame("pull_equity_package_sales", dry_run, select_ok,
                                       keys_ok, "done", to_add,
                                       call'.stats.inserted + call'.stats.updated)
          ELSE /\ NothingHanded("pull_equity_package_sales", dry_run, select_ok,
                                keys_ok, to_add)
               /\ UNCHANGED localVars
    /\ UNCHANGED remoteVars

\* DatabaseSync.pull_business_summary()
pull_business_summary(dry_run, select_ok, keys_ok) ==
    /\ sync.pc # "saving"
    /\ \E to_add \in {IF select_ok
                      THEN PullBusinessToAdd(sb_business_summary,
                               LocalBusinessKeys(mt_business_summary, keys_ok))
                      ELSE {}} :
          IF to_add # {} /\ ~dry_run
          THEN \E records_to_add \in SeqsOf(to_add) :
                  /\ save_business_summary(records_to_add, FALSE)
                  /\ sync' = SyncFrame("pull_business_summary", dry_run, select_ok,
                                       keys_ok, "done", to_add,
                                       call'.stats.inserted + call'.stats.updated)
          ELSE /\ NothingHanded("pull_business_summary", dry_run, select_ok,
                                keys_ok, to_add)
               /\ UNCHANGED localVars
    /\ UNCHANGED remoteVars

\* the sync frame once the remote save f of a push has returned:
\* stats['pushed'] is inserted for equity, inserted + updated for business
PushReturned(s, f) ==
    IF s.pc = "saving" /\ f.pc = "returned"
    THEN [s EXCEPT !.pc = "done",
                   !.count = IF s.op = "push_equity_package_sales"
                             THEN f.stats.inserted
                             ELSE f.stats.inserted + f.stats.updated]
    ELSE s

\* DatabaseSync.push_equity_package_sales() up to the loop of the remote
\* save: get_equity_sales returns the rows, or nothing on a storage error;
\* _get_cloud_equity_keys loads the restaurant cache (load_ok) and reads the
\* remote keys (keys_ok); the remote save pre-loads the cache again (save_ok)
push_equity_package_sales(dry_run, read_ok, load_ok, keys_ok, save_ok) ==
    /\ sync.pc # "saving"
    /\ ~load_ok => ~cache.loaded
    /\ \E loaded \in {LoadRestaurantCache(cache, load_ok)},
          to_push \in {PushEquityToPush(
                           IF read_ok
                           THEN GetEquitySales(mt_stores, mt_equity_package_sales)
                           ELSE {},
                           CloudEquityKeys(sb_equity_package_sales, keys_ok))} :
          IF to_push # {} /\ ~dry_run
          THEN \E records_to_push \in SeqsOf(to_push) :
                  /\ BeginEquitySave(loaded, records_to_push, save_ok)
                  /\ sync' = PushReturned(
                                 SyncFrame("push_equity_package_sales", dry_run, read_ok,
                                           keys_ok, "saving", to_push, Unset), rsave')
          ELSE /\ save_ok
               /\ NothingHanded("push_equity_package_sales", dry_run, read_ok,
                                keys_ok, to_push)
               /\ cache' = loaded
               /\ UNCHANGED <<sb_equity_package_sales, sb_business_summary,
                              sb_dish_sales, rsave>>
    /\ UNCHANGED localVars

\* DatabaseSync.push_business_summary() up to the first batch of the remote
\* save: the local select and the remote key read return or raise
push_business_summary(dry_run, read_ok, keys_ok, fails) ==
    /\ sync.pc # "saving"
    /\ \E to_push \in {IF read_ok
                       THEN PushBusinessToPush(mt_business_summary,
                                CloudBusinessKeys(sb_business_summary, keys_ok))
                       ELSE {}} :
          IF to_push # {} /\ ~dry_run
          THEN \E records_to_push \in SeqsOf(to_push) :
                  /\ fails <= Len(records_to_push) + 1
                  /\ sb_save_business_summary(records_to_push, fails)
                  /\ sync' = PushReturned(
                                 SyncFrame("push_business_summary", dry_run, read_ok,
                                           keys_ok, "saving", to_push, Unset), rsave')
          ELSE /\ fails = 0
               /\ NothingHanded("push_business_summary", dry_run, read_ok,
                                keys_ok, to_push)
               /\ UNCHANGED remoteVars
    /\ UNCHANGED localVars

(***************************************************************************)
(* The crawlers: crawl() of the three report crawlers, on the              *)
(* DatabaseManager that main() constructs.                                 *)
(***************************************************************************)
\* main() has constructed the DatabaseManager and no crawler has run
NoCrawl ==
    [db |-> "ready", report |-> "none", force_update |-> FALSE, records |-> <<>>,
     success |-> Unset, save_stats |-> ZeroStats]

\* DatabaseManager(): _init_db opens the store, or get_connection raises and
\* _init_db raises again, out of the constructor and out of main()
DatabaseManagerInit(ok) ==
    /\ crawl.db = "unopened"
    /\ crawl' = [crawl EXCEPT !.db = IF ok THEN "ready" ELSE "raised"]
    /\ UNCHANGED localVars

\* a save_* call whose get_connection raises sqlite3.Error: the except clause
\* of the call logs it and returns the stats, still zero
SaveNotOpened(op, records) ==
    /\ call' = [op |-> op, stats |-> ZeroStats, raised |-> FALSE,
                count |-> Len(records), error |-> 1]
    /\ UNCHANGED <<mt_stores, mt_equity_package_sales, mt_business_summary, mt_dish_sales>>

\* create_result(success, ...) with the data of the crawl
create_result(report, force_update, records, success, save_stats) ==
    [db |-> crawl.db, report |-> report, force_update |-> force_update,
     records |-> records, success |-> success, save_stats |-> save_stats]

\* the part of crawl() that the three crawlers share: the filters are set
\* or not, the extracted all_data is saved when it is not empty, and the
\* result is made; Saved is the crawler's call of the store
CrawlSteps(report, force_update, all_data, filters_ok, Saved) ==
    /\ crawl.db = "ready"
    /\ IF ~filters_ok
       THEN /\ crawl' = create_result(report, force_update, <<>>, FALSE, ZeroStats)
            /\ UNCHANGED localVars
       ELSE IF all_data = <<>>
       THEN /\ crawl' = create_result(report, force_update, all_data, TRUE, ZeroStats)
            /\ UNCHANGED localVars
       ELSE /\ Saved
            /\ crawl' = IF call'.raised
                        THEN create_result(report, force_update, <<>>, FALSE, ZeroStats)
                        ELSE create_result(report, force_update, all_data, TRUE,
                                           call'.stats)

\* EquityPackageSalesCrawler.crawl: self.force_update is not handed on
EquityPackageSalesCrawl(force_update, all_data, filters_ok, open_ok) ==
    CrawlSteps("equity_package_sales", force_update, all_data, filters_ok,
               IF open_ok THEN save_equity_package_sales(all_data)
               ELSE SaveNotOpened("save_equity_package_sales", all_data))

\* BusinessSummaryCrawler.crawl
BusinessSummaryCrawl(force_update, all_data, filters_ok, open_ok) ==
    CrawlSteps("business_summary", force_update, all_data, filters_ok,
               IF open_ok THEN save_business_summary(all_data, force_update)
               ELSE SaveNotOpened("save_business_summary", all_data))

\* DishSalesCrawler.crawl
DishSalesCrawl(force_update, all_data, filters_ok, open_ok) ==
    CrawlSteps("dish_sales", force_update, all_data, filters_ok,
               IF open_ok THEN save_dish_sales(all_data, force_update)
               ELSE SaveNotOpened("save_dish_sales", all_data))

(***************************************************************************)
(* Name lookups, the uploads of a run, the lock of the local store.        *)
(***************************************************************************)
\* get_restaurant_id_by_name has not been called
NoLookup == [store_name |-> NoName, result |-> Unset]

\* SupabaseManager.get_restaurant_id_by_name(store_name), called on the
\* manager: the cache is loaded first when it is not, and the select of the
\* load succeeds (ok) or raises
get_restaurant_id_by_name(store_name, ok) ==
    /\ ~ok => ~cache.loaded
    /\ \E c \in {LoadRestaurantCache(cache, ok)} :
           /\ cache' = c
           /\ lookup' = [store_name |-> store_name,
                         result |-> RestaurantIdByName(c.names, store_name)]
    /\ UNCHANGED <<sb_equity_package_sales, sb_business_summary, sb_dish_sales, rsave>>

\* main() has uploaded no report yet: the report types uploaded, the selects
\* on master_restaurant issued by the managers of the run, those of them
\* that raised, and the calls of refresh_restaurant_cache
NoRun == [reports |-> {}, selects |-> 0, failed |-> 0, refreshes |-> 0]

\* a cap on the explicit refreshes of one run
MaxRefreshes == 1

\* the save that upload_to_supabase calls for a report type
SaveOf(report_type) ==
    IF report_type = "equity_package_sales" THEN "save_equity_package_sales"
    ELSE IF report_type = "business_summary" THEN "save_business_summary"
    ELSE "save_dish_sales"

\* the selects on master_restaurant that the save of a report issues on a
\* manager with the caches c, while fails selects are still to raise: one in
\* the equity save, one per call of _load_restaurant_cache that finds the
\* cache not loaded in a batched save
SelectsOf(c, report_type, records, fails) ==
    IF report_type = "equity_package_sales"
    THEN IF c.loaded THEN [selects |-> 0, failed |-> 0]
         ELSE [selects |-> 1, failed |-> IF fails > 0 THEN 1 ELSE 0]
    ELSE LET st == Phase1(SaveOf(report_type), TryLoad(Phase1Start(c, fails)),
                          records, Len(records))
         IN  [selects |-> st.selects, failed |-> st.failed]

\* upload_to_supabase(records, report_type) of main(), called once per report
\* with records: it makes a SupabaseManager, whose caches are empty, and
\* calls the report's save on it
upload_to_supabase(records, report_type, fails) ==
    /\ report_type \notin run.reports
    /\ records # <<>>
    /\ IF report_type = "equity_package_sales"
       THEN BeginEquitySave(EmptyCache, records, fails = 0)
       ELSE BeginBatchedSaveOn(EmptyCache, SaveOf(report_type), records, fails)
    /\ \E n \in {SelectsOf(EmptyCache, report_type, records, fails)} :
           run' = [run EXCEPT !.reports = @ \cup {report_type},
                              !.selects = @ + n.selects,
                              !.failed = @ + n.failed]

\* an explicit refresh on the manager of the last upload
RunRefresh(ok) ==
    /\ run.refreshes < MaxRefreshes
    /\ refresh_restaurant_cache(ok)
    /\ run' = [run EXCEPT !.refreshes = @ + 1, !.selects = @ + 1,
                          !.failed = @ + IF ok THEN 0 ELSE 1]

\* the threads that call operations of one DatabaseManager
Threads == {"t1", "t2", "t3"}

\* DatabaseManager.__init__: self._lock = Lock(), and no thread is in
\* get_connection; conn is each thread's local of that name; job is the
\* local write call of the thread, with the row its SELECT fetched; order
\* lists the threads whose calls have committed, in the order of the commits
NoThreads ==
    [lock |-> None, pc |-> [t \in Threads |-> "idle"], conn |-> [t \in Threads |-> None],
     job |-> [t \in Threads |-> [state |-> "none", record |-> None, existing |-> {}]],
     order |-> <<>>]

\* the ways in which the body of `with self.get_connection() as conn` ends
ScopeEnds == {"return", "sqlite3.Error", "Exception"}

\* a lock that stays held when the with block is left by an exception
HeldOnError(lock, how) == IF how = "return" THEN None ELSE lock

\* the lock after `with self._lock:` is left, however it is left
ReleasedOnExit(lock, how) == None

\* a thread calls an operation, which enters get_connection and reaches
\* `with self._lock:`
EnterGetConnection(t) ==
    /\ threads.pc[t] = "idle"
    /\ threads' = [threads EXCEPT !.pc[t] = "waiting"]

\* a lock that every thread may take at any time
LockNeverHeld(lock) == TRUE

\* threading.Lock: acquire() returns only when no thread holds the lock
LockFree(lock) == lock = None

\* self._lock.acquire() returns: the lock was free
AcquireLock(t) ==
    /\ threads.pc[t] = "waiting"
    /\ LockFree(threads.lock)
    /\ threads' = [threads EXCEPT !.lock = t, !.pc[t] = "locked"]

\* sqlite3.connect and the PRAGMA: the connection is yielded to the body, or
\* sqlite3.Error is raised, which leaves the with block
Connect(t, ok) ==
    /\ threads.pc[t] = "locked"
    /\ threads' = IF ok
                  THEN [threads EXCEPT !.conn[t] = "open", !.pc[t] = "scope"]
                  ELSE [threads EXCEPT !.lock = ReleasedOnExit(@, "sqlite3.Error"),
                                       !.pc[t] = "except"]

\* the body ends: the with block is left, then the except clause runs for a
\* sqlite3.Error, and the finally clause in every case
LeaveScope(t, how) ==
    /\ threads.pc[t] = "scope"
    /\ threads' = [threads EXCEPT !.lock = ReleasedOnExit(@, how),
                                  !.pc[t] = IF how = "sqlite3.Error" THEN "except"
                                            ELSE "finally"]

\* except sqlite3.Error: conn.rollback() if conn, then raise
Rollback(t) ==
    /\ threads.pc[t] = "except"
    /\ threads' = [threads EXCEPT !.pc[t] = "finally"]

\* finally: conn.close() if conn; the operation returns or raises
CloseConnection(t) ==
    /\ threads.pc[t] = "finally"
    /\ threads' = [threads EXCEPT !.conn[t] = None, !.pc[t] = "idle"]

\* thread t calls save_equity_package_sales([record]) and reaches
\* `with self.get_connection() as conn`
thread_save_equity_package_sales(t, record) ==
    /\ threads.pc[t] = "idle"
    /\ threads.job[t].state = "none"
    /\ threads' = [threads EXCEPT !.pc[t] = "waiting",
                                  !.job[t] = [state |-> "called", record |-> record,
                                              existing |-> {}]]
    /\ UNCHANGED localVars

\* in the body: the SELECT of the row with the key of the record, and
\* existing = cursor.fetchone()
thread_select(t) ==
    /\ threads.pc[t] = "scope"
    /\ threads.job[t].state = "called"
    /\ threads' = [threads EXCEPT
                      !.job[t].state = "selected",
                      !.job[t].existing = SelectEquity(mt_equity_package_sales,
                                                       threads.job[t].record)]
    /\ UNCHANGED localVars

\* the table after the statement that follows the SELECT: the INSERT when
\* existing is None, the UPDATE of the fetched row (WHERE id = ?) when the
\* record is higher, else nothing
WrittenAfterSelect(table, record, existing) ==
    IF existing = {} THEN table \cup {EquityRow(record)}
    ELSE IF EquityIsHigher(record, CHOOSE row \in existing : TRUE)
    THEN {IF row \in SelectEquity(table, record) THEN UpdateEquityRow(row, record) ELSE row :
             row \in table}
    ELSE table

\* the counter that statement bumps
CountedAfterSelect(record, existing) ==
    IF existing = {} THEN "inserted"
    ELSE IF EquityIsHigher(record, CHOOSE row \in existing : TRUE) THEN "updated"
    ELSE "skipped"

\* in the body: the upsert of the store, the INSERT or UPDATE decided by the
\* fetched row, and conn.commit()
thread_commit(t) ==
    /\ threads.pc[t] = "scope"
    /\ threads.job[t].state = "selected"
    /\ \E job \in {threads.job[t]} :
          /\ mt_stores' = UpsertStore(mt_stores, job.record.org_code, job.record.store_name)
          /\ mt_equity_package_sales' =
                 WrittenAfterSelect(mt_equity_package_sales, job.record, job.existing)
          /\ call' = [op |-> "save_equity_package_sales",
                      stats |-> Bump(ZeroStats, CountedAfterSelect(job.record, job.existing)),
                      raised |-> FALSE, count |-> 1, error |-> 0]
    /\ threads' = [threads EXCEPT !.job[t].state = "committed", !.order = Append(@, t)]
    /\ UNCHANGED <<mt_business_summary, mt_dish_sales>>

(***************************************************************************)
(* DishSalesCrawler._configure_filters: the wait for the query results.    *)
(***************************************************************************)
\* seconds: the wait budget and the sleep before each poll
max_wait == 45
wait_interval == 2
\* the clicks on the query button after an error message
max_retries == 2

\* the wait has not begun.  elapsed, retry_count: the locals of those names;
\* polls: the polls made; seen: a poll found the pagination text
NoWait ==
    [pc |-> "none", elapsed |-> 0, retry_count |-> 0, polls |-> 0, seen |-> FALSE,
     result |-> None]

\* the query button is clicked and the loop is reached
wait_start ==
    /\ wait.pc = "none"
    /\ wait' = [NoWait EXCEPT !.pc = "polling"]

\* after the loop: `if elapsed >= max_wait: return False`, else True
WaitResult(elapsed) == IF elapsed >= max_wait THEN "False" ELSE "True"

\* one pass of `while elapsed < max_wait`: the sleep, the poll for the
\* pagination text (has_data) and the poll for an error message
\* (has_error), then the break, the new query or the next pass
wait_poll(has_data, has_error) ==
    /\ wait.pc = "polling"
    /\ wait.elapsed < max_wait
    /\ \E elapsed \in {wait.elapsed + wait_interval} :
          wait' =
            IF has_data
            THEN [wait EXCEPT !.pc = "returned", !.elapsed = elapsed, !.polls = @ + 1,
                              !.seen = TRUE, !.result = WaitResult(elapsed)]
            ELSE IF has_error /\ wait.retry_count < max_retries
            THEN [wait EXCEPT !.elapsed = 0, !.polls = @ + 1, !.retry_count = @ + 1]
            ELSE IF elapsed < max_wait
            THEN [wait EXCEPT !.elapsed = elapsed, !.polls = @ + 1]
            ELSE [wait EXCEPT !.pc = "returned", !.elapsed = elapsed, !.polls = @ + 1,
                              !.result = WaitResult(elapsed)]

(***************************************************************************)
(* _extract_all_pages of the three crawlers.                               *)
(***************************************************************************)
\* _extract_all_pages has not been called.  total_pages: the value read
\* from the pagination; shown: the page the table displays; page_num: the
\* loop variable; read: for each pass of the loop, its page_num, the page
\* that was displayed when _extract_table_data ran, and whether the
\* navigation to page_num had returned True
NoPages ==
    [pc |-> "none", total_pages |-> 0, shown |-> 1, page_num |-> 1, nav_ok |-> TRUE,
     read |-> <<>>]

\* the page displayed after _go_to_page(target_page), which returns ok: the
\* callers do not look at what it returns
ShownAfterGoTo(shown, target_page, ok) == IF ok THEN target_page ELSE shown

\* _extract_all_pages up to its loop: the pagination is read, and page 1 is
\* asked for when another page is displayed
extract_all_pages_start(total_pages, current_page, ok) ==
    /\ pages.pc = "none"
    /\ current_page = 1 => ok
    /\ pages' = [NoPages EXCEPT
                    !.pc = IF total_pages >= 1 THEN "page" ELSE "returned",
                    !.total_pages = total_pages,
                    !.shown = IF current_page # 1
                              THEN ShownAfterGoTo(current_page, 1, ok)
                              ELSE current_page,
                    !.nav_ok = ok]

\* one pass of `for page_num in range(1, total_pages + 1)`: the rows of the
\* displayed page are extracted, then the next page is asked for
extract_all_pages_page(ok) ==
    /\ pages.pc = "page"
    /\ pages.page_num = pages.total_pages => ok
    /\ pages' = [pages EXCEPT
                    !.read = Append(@, [page_num |-> pages.page_num, shown |-> pages.shown,
                                        nav_ok |-> pages.nav_ok]),
                    !.pc = IF pages.page_num < pages.total_pages THEN "page" ELSE "returned",
                    !.shown = IF pages.page_num < pages.total_pages
                              THEN ShownAfterGoTo(@, pages.page_num + 1, ok)
                              ELSE @,
                    !.nav_ok = ok,
                    !.page_num = @ + 1]

(***************************************************************************)
(* main: the loop over the reports and the attempts of each report.        *)
(***************************************************************************)
\* MAX_RETRIES of main: the attempts of one report
MAIN_MAX_RETRIES == 3

\* how an attempt ends: navigate_to_report returns False; crawl() returns a
\* result with success True or False; an exception whose text names a
\* timeout; any other exception
AttemptOutcomes == {"navigation_failed", "success", "failed", "timeout", "exception"}

\* what happens in one attempt: the stage of the attempt where something
\* goes wrong and what goes wrong there.  "main" is the try body of main
\* outside the two calls; ok is an attempt where nothing goes wrong
AttemptEvents ==
    {[stage |-> "navigation", kind |-> "returns_false"],
     [stage |-> "navigation", kind |-> "timeout"],
     [stage |-> "filters", kind |-> "returns_false"],
     [stage |-> "filters", kind |-> "timeout"],
     [stage |-> "extraction", kind |-> "timeout"],
     [stage |-> "crawl", kind |-> "error"],
     [stage |-> "main", kind |-> "timeout"],
     [stage |-> "main", kind |-> "error"],
     [stage |-> "none", kind |-> "ok"]}

\* str(e) of a playwright timeout, of any other exception, and of the
\* AttributeError of a method the object does not have
TimeoutText == "Timeout 60000ms exceeded."
ErrorText == "error"
AttributeErrorText == "object has no attribute 'capture_debug_screenshot'"

\* is_timeout: "Timeout" in error_msg or "timeout" in error_msg.lower()
is_timeout(error_msg) == error_msg = TimeoutText

\* MeituanGuanjiaSite.navigate_to_report: "True", "False", or the text of
\* the exception it raises.  Its except clause calls
\* self.capture_debug_screenshot, which neither the site nor BaseSite
\* defines, so an exception inside the try leaves as an AttributeError
navigate_to_report(event) ==
    IF event.stage # "navigation" THEN "True"
    ELSE IF event.kind = "returns_false" THEN "False"
    ELSE AttributeErrorText

\* crawler.crawl(): _configure_filters catches every exception and returns
\* False; _extract_table_data catches every exception and returns [], so
\* the crawl goes on to success; the except clause of crawl turns any other
\* exception into a failed result
crawler_crawl(event) ==
    IF event.stage = "filters"
    THEN [success |-> FALSE, error |-> "Filter configuration failed"]
    ELSE IF event.stage = "crawl"
    THEN [success |-> FALSE, error |-> ErrorText]
    ELSE [success |-> TRUE, error |-> None]

\* the exception main's except clause receives in the attempt, None if none
RaisedInMain(event) ==
    IF navigate_to_report(event) \notin {"True", "False"} THEN navigate_to_report(event)
    ELSE IF event.stage = "main"
    THEN (IF event.kind = "timeout" THEN TimeoutText ELSE ErrorText)
    ELSE None

\* how the attempt ends for main
OutcomeOf(event) ==
    IF RaisedInMain(event) # None
    THEN (IF is_timeout(RaisedInMain(event)) THEN "timeout" ELSE "exception")
    ELSE IF navigate_to_report(event) = "False" THEN "navigation_failed"
    ELSE IF crawler_crawl(event).success THEN "success"
    ELSE "failed"

\* main has not started its report loop.  reports: reports_to_run still to
\* do; attempt, tried, events: the loop variable and the outcomes and events
\* of the attempts of the report at work; error: that field of its results
\* dictionary; all_results: the results appended so far
NoOrch ==
    [pc |-> "none", reports |-> <<>>, attempt |-> 0, tried |-> <<>>, events |-> <<>>,
     error |-> None, all_results |-> <<>>]

\* main up to the first attempt of the first report
main_start(reports_to_run) ==
    /\ orch.pc = "none"
    /\ orch' = [NoOrch EXCEPT !.pc = IF reports_to_run = <<>> THEN "done" ELSE "attempt",
                              !.reports = reports_to_run]

\* whether the attempt ends the loop `for attempt in range(MAX_RETRIES)`:
\* break after a failed navigation, a success, a second failed result, a
\* timeout on the last attempt and any other exception; continue otherwise
Breaks(outcome, attempt) ==
    IF outcome = "failed" THEN ~(attempt < 1)
    ELSE IF outcome = "timeout" THEN ~(attempt < MAIN_MAX_RETRIES - 1)
    ELSE TRUE

\* results["error"] after the attempt: set by a failed navigation, a failed
\* result and an exception that ends the loop; left as it is by a success
\* and by a timeout that is retried
ResultsError(error, event, attempt) ==
    LET outcome == OutcomeOf(event)
    IN  IF outcome = "navigation_failed" THEN "Navigation failed"
        ELSE IF outcome = "failed" THEN crawler_crawl(event).error
        ELSE IF outcome = "success" THEN error
        ELSE IF Breaks(outcome, attempt) THEN RaisedInMain(event)
        ELSE error

\* one attempt of the report at work; after a break the results are
\* appended and the next report begins
main_attempt(event) ==
    /\ orch.pc = "attempt"
    /\ \E outcome \in {OutcomeOf(event)} :
         orch' = IF Breaks(outcome, orch.attempt)
                 THEN [NoOrch EXCEPT
                         !.pc = IF Len(orch.reports) = 1 THEN "done" ELSE "attempt",
                         !.reports = Tail(orch.reports),
                         !.all_results =
                             Append(orch.all_results,
                                    [report |-> Head(orch.reports),
                                     success |-> outcome = "success",
                                     error |-> ResultsError(orch.error, event, orch.attempt),
                                     tried |-> Append(orch.tried, outcome),
                                     events |-> Append(orch.events, event)])]
                 ELSE [orch EXCEPT !.attempt = @ + 1,
                                   !.tried = Append(@, outcome),
                                   !.events = Append(@, event),
                                   !.error = ResultsError(@, event, orch.attempt)]

(***************************************************************************)
(* BusinessSummaryCrawler._flatten_headers.                                *)
(***************************************************************************)
\* the header rows of the report table: rows = {0: [], 1: [], 2: [], 3: []}
HEADER_ROWS == 4

\* _flatten_headers has not been called
NoDecode ==
    [pc |-> "none", headers |-> <<>>, total_cols |-> 0, grid |-> <<>>, occupied |-> {},
     placed |-> 0, written |-> 0, index_error |-> FALSE, names |-> <<>>]

\* rows[row_idx]: the cells of one row, in the order of the list
RowCells(headers, row_idx) == SelectSeq(headers, LAMBDA h : h.rowIndex = row_idx)

RECURSIVE SumColspan(_)
SumColspan(cells) ==
    IF cells = <<>> THEN 0 ELSE Head(cells).colspan + SumColspan(Tail(cells))

\* total_cols = sum(int(h['colspan']) for h in rows[0])
TotalCols(headers) == SumColspan(RowCells(headers, 0))

RECURSIVE SkipOccupied(_, _, _, _)
\* while col_cursor < total_cols and occupied[row_idx][col_cursor]: col_cursor += 1
SkipOccupied(occupied, row_idx, col_cursor, total_cols) ==
    IF col_cursor < total_cols /\ <<row_idx, col_cursor>> \in occupied
    THEN SkipOccupied(occupied, row_idx, col_cursor + 1, total_cols)
    ELSE col_cursor

\* a cell written over its whole span, beyond the grid too
SpanUnclipped(h, row_idx, col_cursor, total_cols) ==
    {<<row_idx + dr, col_cursor + dc>> : dr \in 0..(h.rowspan - 1), dc \in 0..(h.colspan - 1)}

\* the positions the two loops over dr and dc reach before their breaks
Span(h, row_idx, col_cursor, total_cols) ==
    {p \in SpanUnclipped(h, row_idx, col_cursor, total_cols) :
        p[1] < HEADER_ROWS /\ p[2] < total_cols}

\* one pass of `for h in rows[row_idx]`: g.stop is the break of this loop;
\* placed counts the cells written, written the grid positions assigned, and
\* index_error tells whether a position outside the lists was assigned
PlaceCell(g, row_idx, h, total_cols) ==
    IF g.stop THEN g
    ELSE LET col_cursor == SkipOccupied(g.occupied, row_idx, g.col_cursor, total_cols)
         IN  IF col_cursor >= total_cols
             THEN [g EXCEPT !.stop = TRUE, !.col_cursor = col_cursor]
             ELSE LET span == Span(h, row_idx, col_cursor, total_cols)
                  IN  [grid |-> [p \in DOMAIN g.grid |->
                                     IF p \in span THEN h.text ELSE g.grid[p]],
                       occupied |-> g.occupied \cup span,
                       col_cursor |-> col_cursor + h.colspan,
                       stop |-> FALSE,
                       placed |-> g.placed + 1,
                       written |-> g.written + Cardinality(span),
                       index_error |-> g.index_error \/ ~(span \subseteq DOMAIN g.grid)]

RECURSIVE FillRow(_, _, _, _)
\* the cells of one row, from the first to the break
FillRow(g, row_idx, cells, total_cols) ==
    IF cells = <<>> THEN g
    ELSE FillRow(PlaceCell(g, row_idx, Head(cells), total_cols), row_idx, Tail(cells),
                 total_cols)

RECURSIVE FillGrid(_, _, _, _)
\* for row_idx in range(4): col_cursor = 0, then the cells of the row
FillGrid(g, headers, row_idx, total_cols) ==
    IF row_idx >= HEADER_ROWS THEN g
    ELSE FillGrid(FillRow([g EXCEPT !.col_cursor = 0, !.stop = FALSE], row_idx,
                          RowCells(headers, row_idx), total_cols),
                  headers, row_idx + 1, total_cols)

\* grid and occupied as allocated: 4 x total_cols, None and False
EmptyGrid(total_cols) ==
    [grid |-> [p \in (0..(HEADER_ROWS - 1)) \X (0..(total_cols - 1)) |-> None],
     occupied |-> {}, col_cursor |-> 0, stop |-> FALSE, placed |-> 0, written |-> 0,
     index_error |-> FALSE]

RECURSIVE ColumnPartsAll(_, _, _)
\* parts that keep every repeated value
ColumnPartsAll(grid, col, row) ==
    IF row = 0 THEN <<>>
    ELSE LET parts == ColumnPartsAll(grid, col, row - 1)
             cell == grid[<<row - 1, col>>]
         IN  IF cell # None /\ cell # "" THEN Append(parts, cell) ELSE parts

RECURSIVE ColumnParts(_, _, _)
\* parts after the rows 0..row-1 of a column: a cell is added when it is
\* neither None nor empty nor equal to parts[-1]
ColumnParts(grid, col, row) ==
    IF row = 0 THEN <<>>
    ELSE LET parts == ColumnParts(grid, col, row - 1)
             cell == grid[<<row - 1, col>>]
         IN  IF cell # None /\ cell # "" /\ (parts = <<>> \/ parts[Len(parts)] # cell)
             THEN Append(parts, cell)
             ELSE parts

RECURSIVE Join(_)
\* '-'.join(parts)
Join(parts) ==
    IF parts = <<>> THEN ""
    ELSE IF Len(parts) = 1 THEN parts[1]
    ELSE parts[1] \o "-" \o Join(Tail(parts))

\* the joined parts, or a name in the form Col{col} when there is no part
ColumnName(grid, col) ==
    LET parts == ColumnParts(grid, col, HEADER_ROWS)
    IN  IF parts # <<>> THEN Join(parts) ELSE "Col" \o ToString(col)

\* _flatten_headers(headers)
flatten_headers(headers) ==
    /\ decoder.pc = "input"
    /\ \E total_cols \in {TotalCols(headers)} :
          \E g \in {FillGrid(EmptyGrid(total_cols), headers, 0, total_cols)} :
             decoder' = [pc |-> "returned", headers |-> headers, total_cols |-> total_cols,
                         grid |-> g.grid, occupied |-> g.occupied,
                         placed |-> g.placed, written |-> g.written,
                         index_error |-> g.index_error,
                         names |-> [c \in 1..total_cols |-> ColumnName(g.grid, c - 1)]]

(***************************************************************************)
(* BusinessSummaryCrawler._parse_row, _is_valid_date and                   *)
(* BaseCrawler.parse_number.  A text is the sequence of its characters.    *)
(***************************************************************************)
Digits == {"0", "1", "2", "3", "4", "5", "6", "7", "8", "9"}

\* what float() and int() raise for a text they reject
ValueError == "ValueError"

\* the values of a record: an int, a float, a text, or the exception that
\* computing the value raised
Value(type, v) == [type |-> type, v |-> v]

\* str.replace(old, new) for a one-character old; new is a text
Replace(text, old, new) ==
    IF text = <<>> THEN <<>>
    ELSE [k \in 1..Len(text) |-> IF text[k] = old THEN new ELSE <<text[k]>>]

RECURSIVE Concat(_)
Concat(texts) == IF texts = <<>> THEN <<>> ELSE Head(texts) \o Concat(Tail(texts))

RECURSIVE Strip(_)
\* str.strip()
Strip(text) ==
    IF text = <<>> THEN <<>>
    ELSE IF Head(text) = " " THEN Strip(Tail(text))
    ELSE IF text[Len(text)] = " " THEN Strip(SubSeq(text, 1, Len(text) - 1))
    ELSE text

RECURSIVE Split(_, _)
\* str.split(sep) for a one-character sep
Split(text, sep) ==
    IF \A k \in 1..Len(text) : text[k] # sep THEN <<text>>
    ELSE LET at == CHOOSE k \in 1..Len(text) :
                       text[k] = sep /\ \A j \in 1..(k - 1) : text[j] # sep
         IN  <<SubSeq(text, 1, at - 1)>> \o Split(SubSeq(text, at + 1, Len(text)), sep)

RECURSIVE DigitsValue(_)
\* the number that a text of digits writes
DigitsValue(text) ==
    IF text = <<>> THEN 0
    ELSE 10 * DigitsValue(SubSeq(text, 1, Len(text) - 1))
           + (CHOOSE d \in 0..9 : ToString(d) = text[Len(text)])

\* str.isdigit()
IsDigit(text) == text # <<>> /\ \A k \in 1..Len(text) : text[k] \in Digits

\* int(text): blanks around, a sign, then digits; ValueError otherwise
IntOf(text) ==
    LET t == Strip(text)
        signed == t # <<>> /\ t[1] \in {"+", "-"}
        body == IF signed THEN Tail(t) ELSE t
    IN  IF ~IsDigit(body) THEN Value("raised", ValueError)
        ELSE IF signed /\ t[1] = "-" THEN Value("int", 0 - DigitsValue(body))
        ELSE Value("int", DigitsValue(body))

\* the float 0.0
Zero == [kind |-> "finite", neg |-> FALSE, int |-> 0, frac |-> <<>>]

RECURSIVE TrimZeros(_)
TrimZeros(text) ==
    IF text # <<>> /\ text[Len(text)] = "0" THEN TrimZeros(SubSeq(text, 1, Len(text) - 1))
    ELSE text

\* float(text) for a stripped text: a sign, then nan, inf, infinity, or
\* digits with at most one point (no exponent occurs in the inputs);
\* ValueError otherwise
FloatOf(text) ==
    LET signed == text # <<>> /\ text[1] \in {"+", "-"}
        body == IF signed THEN Tail(text) ELSE text
        neg == signed /\ text[1] = "-"
        parts == Split(body, ".")
    IN  IF body = <<"n", "a", "n">>
        THEN [kind |-> "nan", neg |-> FALSE, int |-> 0, frac |-> <<>>]
        ELSE IF body \in {<<"i", "n", "f">>, <<"i", "n", "f", "i", "n", "i", "t", "y">>}
        THEN [kind |-> "inf", neg |-> neg, int |-> 0, frac |-> <<>>]
        ELSE IF /\ Len(parts) <= 2
                /\ \A k \in 1..Len(parts) : parts[k] = <<>> \/ IsDigit(parts[k])
                /\ \E k \in 1..Len(parts) : parts[k] # <<>>
        THEN [kind |-> "finite", neg |-> neg, int |-> DigitsValue(parts[1]),
              frac |-> IF Len(parts) = 2 THEN TrimZeros(parts[2]) ELSE <<>>]
        ELSE [kind |-> ValueError, neg |-> FALSE, int |-> 0, frac |-> <<>>]

\* the yen sign and the yuan character, each one character of a text
YenSign == "yen"
YuanChar == "yuan"

\* value.replace(',', '').replace(yen sign, '').replace(yuan, '').strip()
Cleaned(value) ==
    Strip(Concat(Replace(Concat(Replace(Concat(Replace(value, ",", <<>>)), YenSign, <<>>)),
                         YuanChar, <<>>)))

\* BaseCrawler.parse_number(value): the bare except turns every error into 0.0
parse_number(value) ==
    LET cleaned == Cleaned(value)
    IN  IF cleaned = <<>> THEN Zero
        ELSE IF FloatOf(cleaned).kind = ValueError THEN Zero
        ELSE FloatOf(cleaned)

\* parse_number raises: never, its try has a bare except
ParseNumberRaises(value) == FALSE

\* int(x) for a float x: truncation; ValueError for nan, OverflowError for inf
IntOfFloat(x) ==
    IF x.kind = "nan" THEN Value("raised", ValueError)
    ELSE IF x.kind = "inf" THEN Value("raised", "OverflowError")
    ELSE IF x.neg THEN Value("int", 0 - x.int) ELSE Value("int", x.int)

\* BusinessSummaryCrawler._is_valid_date(date_str)
is_valid_date(date_str) ==
    IF date_str = <<>> THEN FALSE
    ELSE LET parts == Split(Concat(Replace(date_str, "/", <<"-">>)), "-")
         IN  IF Len(parts) # 3 THEN FALSE
             ELSE IF Len(parts[1]) # 4 \/ SubSeq(parts[1], 1, 2) # <<"2", "0">> THEN FALSE
             ELSE IF IntOf(parts[2]).type = "raised" THEN FALSE
             ELSE IF ~(1 <= IntOf(parts[2]).v /\ IntOf(parts[2]).v <= 12) THEN FALSE
             ELSE IF IntOf(parts[3]).type = "raised" THEN FALSE
             ELSE IF ~(1 <= IntOf(parts[3]).v /\ IntOf(parts[3]).v <= 31) THEN FALSE
             ELSE TRUE

\* BusinessSummaryCrawler.FIXED_COLUMNS: (col_index, field_name, data_type)
FIXED_COLUMNS ==
    <<<<1, "city", "text">>, <<2, "store_name", "text">>, <<3, "business_date", "date">>,
      <<4, "store_created_at", "datetime">>, <<5, "operating_days", "number">>,
      <<6, "revenue", "decimal">>, <<7, "discount_amount", "decimal">>,
      <<8, "business_income", "decimal">>, <<9, "order_count", "number">>,
      <<10, "diner_count", "number">>, <<11, "table_count", "number">>,
      <<12, "per_capita_before_discount", "decimal">>,
      <<13, "per_capita_after_discount", "decimal">>,
      <<14, "avg_order_before_discount", "decimal">>,
      <<15, "avg_order_after_discount", "decimal">>,
      <<16, "table_opening_rate", "percentage">>, <<17, "table_turnover_rate", "decimal">>,
      <<18, "occupancy_rate", "percentage">>, <<19, "avg_dining_time", "number">>>>

\* the rows shorter than this are no data rows: if len(row) < 20
MIN_ROW_CELLS == 20

\* _parse_row has not been called
NoRow ==
    [pc |-> "none", cells |-> <<>>, column_names |-> <<>>,
     result |-> [outcome |-> "none", fields |-> <<>>, composition_data |-> <<>>]]

\* row[i] and column_names[i] of the code, whose lists start at 0
At(list, i) == list[i + 1]

\* the value stored for one fixed column
FixedField(value, data_type) ==
    IF data_type = "number" THEN IntOfFloat(parse_number(value))
    ELSE IF data_type = "decimal" THEN Value("float", parse_number(value))
    ELSE IF data_type = "date" THEN Value("str", Concat(Replace(value, "/", <<"-">>)))
    ELSE Value("str", value)

\* record after the loop over FIXED_COLUMNS
FixedFields(cells) ==
    LET used == {k \in 1..Len(FIXED_COLUMNS) : FIXED_COLUMNS[k][1] < Len(cells)}
    IN  [field_name \in {FIXED_COLUMNS[k][2] : k \in used} |->
            LET col == CHOOSE k \in used : FIXED_COLUMNS[k][2] = field_name
            IN  FixedField(At(cells, FIXED_COLUMNS[col][1]), FIXED_COLUMNS[col][3])]

\* composition_data: the columns from 20 up to the shorter of the row and
\* the header list, a number when parse_number returns, the text when it
\* raises; a name that comes twice keeps the value of its last cell
Composition(cells, column_names) ==
    [col_name \in {At(column_names, i) :
                      i \in MIN_ROW_CELLS..(Min(Len(cells), Len(column_names)) - 1)} |->
        LET same == {j \in MIN_ROW_CELLS..(Min(Len(cells), Len(column_names)) - 1) :
                        At(column_names, j) = col_name}
            i == CHOOSE j \in same : \A k \in same : k <= j
        IN  IF ParseNumberRaises(At(cells, i)) THEN Value("str", At(cells, i))
            ELSE Value("float", parse_number(At(cells, i)))]

\* the outcomes of _parse_row: None, an exception, a record
RowResult(outcome, fields, composition_data) ==
    [outcome |-> outcome, fields |-> fields, composition_data |-> composition_data]

\* _parse_row(row, column_names): None, or the record with the dumped
\* composition_data; int() raises in the loop over the fixed columns for a
\* float that is nan or inf
ParseRow(cells, column_names) ==
    IF Len(cells) < MIN_ROW_CELLS THEN RowResult("none", <<>>, <<>>)
    ELSE LET record == FixedFields(cells)
         IN  IF \E f \in DOMAIN record : record[f].type = "raised"
             THEN RowResult("raised", <<>>, <<>>)
             ELSE IF ~is_valid_date(record["business_date"].v)
             THEN RowResult("none", <<>>, <<>>)
             ELSE IF \/ record["store_name"].v = <<>>
                     \/ IsDigit(record["store_name"].v)
             THEN RowResult("none", <<>>, <<>>)
             ELSE RowResult("record", record, Composition(cells, column_names))

\* one pass of the loop of _extract_table_data: _parse_row(row, column_names);
\* an exception is logged there and the row left out
parse_row(cells, column_names) ==
    /\ rowparse.pc = "input"
    /\ rowparse' = [pc |-> "returned", cells |-> cells, column_names |-> column_names,
                    result |-> ParseRow(cells, column_names)]

(***************************************************************************)
(* Inputs of the local write calls.                                        *)
(***************************************************************************)
OrgCodes == {"MD00006"}
Dates == {"2025-12-11"}
PackageNames == {"p1"}
DishNames == {"dish1"}
\* store names as the reports print them
ReportStoreNames == {NameAlias1}

EquityRecords ==
    [org_code : OrgCodes, store_name : ReportStoreNames, date : Dates,
     package_name : PackageNames, unit_price : Payloads,
     quantity_sold : Vals, total_sales : Vals]

BusinessRecords ==
    [store_name : ReportStoreNames, business_date : Dates,
     revenue : Vals, order_count : Vals, composition_data : Payloads]

DishRecords ==
    [store_name : ReportStoreNames, org_code : OrgCodes, business_date : Dates,
     dish_name : DishNames,
     sales_quantity : Vals, sales_amount : Vals, dish_income : Payloads]

\* the lists of length 1..n over S
RECURSIVE ListsUpTo(_, _)
ListsUpTo(S, n) ==
    IF n = 0 THEN {}
    ELSE [1..n -> S] \cup ListsUpTo(S, n - 1)

(***************************************************************************)
(* SpecLocal: single-record write calls on the three local tables.         *)
(***************************************************************************)
\* DatabaseManager() on a new database file
InitLocalStore ==
    /\ mt_stores = {}
    /\ mt_equity_package_sales = {}
    /\ mt_business_summary = {}
    /\ mt_dish_sales = {}
    /\ call = NoCall

\* no crawler, lookup, upload or thread has run
InitProc ==
    /\ crawl = NoCrawl
    /\ lookup = NoLookup
    /\ run = NoRun
    /\ threads = NoThreads

\* SupabaseManager() on a remote store without fact rows
InitRemoteStore ==
    /\ cache = EmptyCache
    /\ sb_equity_package_sales = {}
    /\ sb_business_summary = {}
    /\ sb_dish_sales = {}
    /\ rsave = IdleSave

\* no header has been decoded, no row parsed, and main has not started
InitParse ==
    /\ decoder = NoDecode
    /\ rowparse = NoRow
    /\ orch = NoOrch
    /\ pages = NoPages
    /\ wait = NoWait

\* the state outside the crawler's parsing and the report loop of main
InitRest == InitLocalStore /\ InitRemoteStore /\ sync = NoSync /\ InitProc

InitLocal == InitRest /\ InitParse

WriteEquity ==
    /\ \E record \in EquityRecords : save_equity_package_sales(<<record>>)
    /\ UNCHANGED <<remoteVars, sync, procVars>>

WriteBusiness ==
    /\ \E record \in BusinessRecords, force_update \in BOOLEAN :
          save_business_summary(<<record>>, force_update)
    /\ UNCHANGED <<remoteVars, sync, procVars>>

WriteDish ==
    /\ \E record \in DishRecords, force_update \in BOOLEAN :
          save_dish_sales(<<record>>, force_update)
    /\ UNCHANGED <<remoteVars, sync, procVars>>

NextLocal == WriteEquity \/ WriteBusiness \/ WriteDish

SpecLocal == InitLocal /\ [][NextLocal]_vars

(***************************************************************************)
(* SpecBatch: equity write calls with lists of up to MaxBatch records.     *)
(***************************************************************************)
BatchOrgCodes == {"MD00006", "MD00007"}
\* quantities and totals of the records of a list: lower, equal and higher
\* all occur between two of them
BatchVals == {0, 1}

BatchRecords ==
    [org_code : BatchOrgCodes, store_name : ReportStoreNames, date : Dates,
     package_name : PackageNames, unit_price : {10},
     quantity_sold : BatchVals, total_sales : BatchVals]

Batches == ListsUpTo(BatchRecords, MaxBatch)

WriteEquityBatch ==
    /\ \E records \in Batches : save_equity_package_sales(records)
    /\ UNCHANGED <<remoteVars, sync, procVars>>

WriteEquityEmpty ==
    /\ save_equity_package_sales(<<>>)
    /\ UNCHANGED <<remoteVars, sync, procVars>>

NextBatch == WriteEquityBatch \/ WriteEquityEmpty

SpecBatch == InitLocal /\ [][NextBatch]_vars

(***************************************************************************)
(* SpecRemote: single-record saves on the three remote tables.             *)
(***************************************************************************)
RemoteEquityRecords == {record \in EquityRecords : record.unit_price = 10}

RemoteBusinessRecords == {record \in BusinessRecords : record.composition_data = 10}

RemoteDishRecords == {record \in DishRecords : record.dish_income = 10}

RemoteWriteEquity ==
    /\ \E record \in RemoteEquityRecords, ok \in BOOLEAN :
          sb_save_equity_package_sales(<<record>>, ok)
    /\ UNCHANGED <<localVars, sync, procVars>>

RemoteEquityRecord ==
    /\ \E write_ok \in BOOLEAN : remote_equity_record(TRUE, write_ok)
    /\ UNCHANGED <<localVars, sync, procVars>>

RemoteWriteBusiness ==
    /\ \E record \in RemoteBusinessRecords, fails \in 0..1 :
          sb_save_business_summary(<<record>>, fails)
    /\ UNCHANGED <<localVars, sync, procVars>>

RemoteWriteDish ==
    /\ \E record \in RemoteDishRecords, fails \in 0..1 :
          sb_save_dish_sales(<<record>>, fails)
    /\ UNCHANGED <<localVars, sync, procVars>>

RetryWithBackoff ==
    /\ \E ok \in BOOLEAN : retry_with_backoff(ok)
    /\ UNCHANGED <<localVars, sync, procVars>>

RefreshRestaurantCache ==
    /\ \E ok \in BOOLEAN : refresh_restaurant_cache(ok)
    /\ UNCHANGED <<localVars, sync, procVars>>

NextRemote ==
    \/ RemoteWriteEquity
    \/ RemoteEquityRecord
    \/ RemoteWriteBusiness
    \/ RemoteWriteDish
    \/ RetryWithBackoff
    \/ RefreshRestaurantCache

SpecRemote == InitLocal /\ [][NextRemote]_vars

(***************************************************************************)
(* SpecRetry: saves of several records, from known and unknown stores,     *)
(* with failing loads, lookups, writes and batches.                        *)
(***************************************************************************)
MaxRecords == 3

RetryStoreNames == {NameAlias1, NameFuzzy2, NameUnknown}

RetryOrgCodes == {"MD00006", "MD00099"}

RetryEquityRecords ==
    [org_code : RetryOrgCodes, store_name : {NameAlias1}, date : Dates,
     package_name : PackageNames, unit_price : {10},
     quantity_sold : {1}, total_sales : {1}]

RetryBusinessRecords ==
    [store_name : RetryStoreNames, business_date : Dates,
     revenue : {1}, order_count : {1}, composition_data : {10}]

RetryDishRecords ==
    [store_name : {NameAlias1, NameUnknown}, business_date : Dates, dish_name : DishNames,
     sales_quantity : {1}, sales_amount : {1}, dish_income : {10}]

SaveEquityList ==
    /\ \E records \in ListsUpTo(RetryEquityRecords, MaxRecords) \cup {<<>>}, ok \in BOOLEAN :
          sb_save_equity_package_sales(records, ok)
    /\ UNCHANGED <<localVars, sync, procVars>>

SaveEquityRecord ==
    /\ \E lookup_ok \in BOOLEAN, write_ok \in BOOLEAN :
          remote_equity_record(lookup_ok, write_ok)
    /\ UNCHANGED <<localVars, sync, procVars>>

SaveBusinessList ==
    /\ \E records \in ListsUpTo(RetryBusinessRecords, MaxRecords) \cup {<<>>} :
          \E fails \in 0..(Len(records) + 1) : sb_save_business_summary(records, fails)
    /\ UNCHANGED <<localVars, sync, procVars>>

SaveDishList ==
    /\ \E records \in ListsUpTo(RetryDishRecords, MaxRecords) \cup {<<>>} :
          \E fails \in 0..(Len(records) + 1) : sb_save_dish_sales(records, fails)
    /\ UNCHANGED <<localVars, sync, procVars>>

SaveBatch ==
    /\ \E ok \in BOOLEAN : retry_with_backoff(ok)
    /\ UNCHANGED <<localVars, sync, procVars>>

NextRetry ==
    \/ SaveEquityList
    \/ SaveEquityRecord
    \/ SaveBusinessList
    \/ SaveDishList
    \/ SaveBatch

\* a call in progress goes on: the process is not stopped between two steps
SpecRetry ==
    InitLocal /\ [][NextRetry]_vars /\ WF_vars(SaveBatch) /\ WF_vars(SaveEquityRecord)

(***************************************************************************)
(* SpecSync: pulls and pushes between stores filled by earlier runs.       *)
(***************************************************************************)
SyncDate1 == "2025-12-11"
SyncDate2 == "2025-12-12"

LocalBusiness(store_name, business_date) ==
    [store_name |-> store_name, business_date |-> business_date,
     revenue |-> 1, order_count |-> 1, composition_data |-> 10]

RemoteBusiness(restaurant_id, business_date) ==
    [restaurant_id |-> restaurant_id, business_date |-> business_date,
     revenue |-> 1, order_count |-> 1, composition_data |-> JsonLoads(10)]

\* local rows left by earlier crawls: a store resolved through the alias
\* table, and one resolved by its exact name
LocalBusinessRows ==
    {LocalBusiness(NameAlias1, SyncDate1), LocalBusiness(NameCanon2, SyncDate1)}

\* a local row of a store that is resolved by a substring of its name
LocalFuzzyRows == {LocalBusiness(NameFuzzy2, SyncDate1)}

\* remote rows left by earlier uploads
RemoteBusinessRows ==
    {RemoteBusiness("uuid2", SyncDate1), RemoteBusiness("uuid2", SyncDate2)}

LocalEquityRow ==
    [org_code |-> "MD00006", date |-> SyncDate1, package_name |-> "p1",
     unit_price |-> 10, quantity_sold |-> 1, total_sales |-> 1]

RemoteEquity(id, restaurant_id) ==
    [id |-> id, restaurant_id |-> restaurant_id, date |-> SyncDate1,
     package_name |-> "p1", unit_price |-> 10, quantity_sold |-> 1, total_sales |-> 1]

\* the business tables are filled and the equity tables empty, or the reverse
InitSync ==
    /\ \/ /\ mt_business_summary \in SUBSET LocalBusinessRows
          /\ sb_business_summary \in SUBSET RemoteBusinessRows
          /\ mt_stores = {}
          /\ mt_equity_package_sales = {}
          /\ sb_equity_package_sales = {}
       \/ /\ mt_business_summary \in SUBSET LocalFuzzyRows
          /\ sb_business_summary = {}
          /\ mt_stores = {}
          /\ mt_equity_package_sales = {}
          /\ sb_equity_package_sales = {}
       \/ /\ mt_business_summary = {}
          /\ sb_business_summary = {}
          /\ \/ mt_stores = {} /\ mt_equity_package_sales = {}
             \/ /\ mt_stores = {[org_code |-> "MD00006", store_name |-> NameAlias1]}
                /\ mt_equity_package_sales = {LocalEquityRow}
          /\ sb_equity_package_sales \in
                 {{}, {RemoteEquity(1, "uuid1")}, {RemoteEquity(1, "uuid2")},
                  {RemoteEquity(1, "uuid1"), RemoteEquity(2, "uuid2")}}
    /\ mt_dish_sales = {}
    /\ sb_dish_sales = {}
    /\ call = NoCall
    /\ cache = EmptyCache
    /\ rsave = IdleSave
    /\ sync = NoSync
    /\ InitProc
    /\ InitParse

PullEquity ==
    /\ \E dry_run \in BOOLEAN, select_ok \in BOOLEAN, keys_ok \in BOOLEAN :
           pull_equity_package_sales(dry_run, select_ok, keys_ok)
    /\ UNCHANGED procVars

PullBusiness ==
    /\ \E dry_run \in BOOLEAN, select_ok \in BOOLEAN, keys_ok \in BOOLEAN :
           pull_business_summary(dry_run, select_ok, keys_ok)
    /\ UNCHANGED procVars

PushEquity ==
    /\ \E dry_run \in BOOLEAN, read_ok \in BOOLEAN, load_ok \in BOOLEAN,
          keys_ok \in BOOLEAN, save_ok \in BOOLEAN :
           push_equity_package_sales(dry_run, read_ok, load_ok, keys_ok, save_ok)
    /\ UNCHANGED procVars

PushBusiness ==
    /\ \E dry_run \in BOOLEAN, read_ok \in BOOLEAN, keys_ok \in BOOLEAN, fails \in 0..1 :
           push_business_summary(dry_run, read_ok, keys_ok, fails)
    /\ UNCHANGED procVars

\* the remote save of a push goes on; its return ends the push
PushSaveBatch ==
    /\ \E ok \in BOOLEAN : retry_with_backoff(ok)
    /\ sync' = PushReturned(sync, rsave')
    /\ UNCHANGED <<localVars, procVars>>

PushSaveEquityRecord ==
    /\ \E lookup_ok \in BOOLEAN, write_ok \in BOOLEAN :
          remote_equity_record(lookup_ok, write_ok)
    /\ sync' = PushReturned(sync, rsave')
    /\ UNCHANGED <<localVars, procVars>>

NextSync ==
    \/ PullEquity
    \/ PullBusiness
    \/ PushEquity
    \/ PushBusiness
    \/ PushSaveBatch
    \/ PushSaveEquityRecord

SpecSync == InitSync /\ [][NextSync]_vars

(***************************************************************************)
(* SpecCrawl: the DatabaseManager is constructed, then crawls of one       *)
(* record each run on it, with and without --force.                        *)
(***************************************************************************)
InitCrawl ==
    /\ InitLocalStore
    /\ InitRemoteStore
    /\ sync = NoSync
    /\ crawl = [NoCrawl EXCEPT !.db = "unopened"]
    /\ lookup = NoLookup
    /\ run = NoRun
    /\ threads = NoThreads
    /\ InitParse

OpenDatabase ==
    /\ \E ok \in BOOLEAN : DatabaseManagerInit(ok)
    /\ UNCHANGED <<remoteVars, sync, lookup, run, threads, parseVars>>

CrawlEquity ==
    /\ \E record \in RemoteEquityRecords, force_update \in BOOLEAN, open_ok \in BOOLEAN :
           EquityPackageSalesCrawl(force_update, <<record>>, TRUE, open_ok)
    /\ UNCHANGED <<remoteVars, sync, lookup, run, threads, parseVars>>

CrawlBusiness ==
    /\ \E record \in BusinessRecords, force_update \in BOOLEAN, open_ok \in BOOLEAN :
           BusinessSummaryCrawl(force_update, <<record>>, TRUE, open_ok)
    /\ UNCHANGED <<remoteVars, sync, lookup, run, threads, parseVars>>

CrawlDish ==
    /\ \E record \in DishRecords, force_update \in BOOLEAN, open_ok \in BOOLEAN :
           DishSalesCrawl(force_update, <<record>>, TRUE, open_ok)
    /\ UNCHANGED <<remoteVars, sync, lookup, run, threads, parseVars>>

\* a crawl that extracts no row, or that cannot set its filters
CrawlNothing ==
    /\ \E force_update \in BOOLEAN, filters_ok \in BOOLEAN :
           \/ EquityPackageSalesCrawl(force_update, <<>>, filters_ok, TRUE)
           \/ BusinessSummaryCrawl(force_update, <<>>, filters_ok, TRUE)
           \/ DishSalesCrawl(force_update, <<>>, filters_ok, TRUE)
    /\ UNCHANGED <<remoteVars, sync, lookup, run, threads, parseVars>>

NextCrawl == OpenDatabase \/ CrawlEquity \/ CrawlBusiness \/ CrawlDish \/ CrawlNothing

SpecCrawl == InitCrawl /\ [][NextCrawl]_vars

(***************************************************************************)
(* SpecDefect: write calls whose lists hold a defective record: a local    *)
(* equity record without its quantity, a business-summary record whose     *)
(* composition text is not JSON, a record without a store name.            *)
(***************************************************************************)
\* an extracted row whose quantity column is missing
EquityWithoutQuantity ==
    [org_code |-> "MD00006", store_name |-> NameAlias1, date |-> "2025-12-11",
     package_name |-> "p1", unit_price |-> 10, total_sales |-> 1]

DefectEquityRecords ==
    {record \in RemoteEquityRecords : record.quantity_sold = record.total_sales}
        \cup {EquityWithoutQuantity}

DefectBusinessRecords ==
    [store_name : {NameAlias1, NameCanon2, NoName}, business_date : Dates,
     revenue : {1}, order_count : {1}, composition_data : {10, NotJson}]

DefectWriteEquity ==
    /\ \E records \in ListsUpTo(DefectEquityRecords, MaxBatch) :
           save_equity_package_sales(records)
    /\ UNCHANGED <<remoteVars, sync, procVars>>

DefectSaveBusiness ==
    /\ \E records \in ListsUpTo(DefectBusinessRecords, MaxBatch) :
           sb_save_business_summary(records, 0)
    /\ UNCHANGED <<localVars, sync, procVars>>

DefectSaveBatch ==
    /\ \E ok \in BOOLEAN : retry_with_backoff(ok)
    /\ UNCHANGED <<localVars, sync, procVars>>

NextDefect == DefectWriteEquity \/ DefectSaveBusiness \/ DefectSaveBatch

SpecDefect == InitLocal /\ [][NextDefect]_vars

(***************************************************************************)
(* SpecResolve: name lookups on managers whose cache is empty or was       *)
(* loaded from a master_restaurant table of up to four restaurants.        *)
(***************************************************************************)
\* a restaurant whose name is part of other names
NameShort == <<"1">>

\* rows that master_restaurant may hold
ResolveRows ==
    {[id |-> "uuid1", meituan_org_code |-> "MD00006", restaurant_name |-> NameCanon1],
     [id |-> "uuid2", meituan_org_code |-> None, restaurant_name |-> NameCanon2],
     [id |-> "uuid3", meituan_org_code |-> None, restaurant_name |-> NameAlias1],
     [id |-> "uuid4", meituan_org_code |-> None, restaurant_name |-> NameShort]}

\* the caches after a load from the rows, in the order of the select
LoadedFrom(rows) ==
    [loaded |-> TRUE, codes |-> LoadOrgCodes(rows, Len(rows)),
     names |-> LoadNames(rows, Len(rows))]

LookupNames ==
    {NameAlias1, NameCanon1, NameCanon2, NameFuzzy2, NameUnknown, NameShort, NoName}

InitResolve ==
    /\ InitLocalStore
    /\ sb_equity_package_sales = {}
    /\ sb_business_summary = {}
    /\ sb_dish_sales = {}
    /\ rsave = IdleSave
    /\ sync = NoSync
    /\ InitProc
    /\ InitParse
    /\ \E table \in SUBSET ResolveRows :
           cache \in {EmptyCache} \cup {LoadedFrom(rows) : rows \in SeqsOf(table)}

LookupByName ==
    /\ \E store_name \in LookupNames, ok \in BOOLEAN :
           get_restaurant_id_by_name(store_name, ok)
    /\ UNCHANGED <<localVars, sync, crawl, run, threads, parseVars>>

NextResolve == LookupByName

SpecResolve == InitResolve /\ [][NextResolve]_vars

(***************************************************************************)
(* SpecRun: the uploads of one run of main(), one per report.              *)
(***************************************************************************)
UploadEquity ==
    /\ \E record \in RetryEquityRecords, fails \in 0..1 :
           upload_to_supabase(<<record>>, "equity_package_sales", fails)
    /\ UNCHANGED <<localVars, sync, crawl, lookup, threads, parseVars>>

UploadBusiness ==
    /\ \E records \in ListsUpTo(RetryBusinessRecords, MaxBatch), fails \in 0..1 :
           upload_to_supabase(records, "business_summary", fails)
    /\ UNCHANGED <<localVars, sync, crawl, lookup, threads, parseVars>>

UploadDish ==
    /\ \E record \in RetryDishRecords, fails \in 0..1 :
           upload_to_supabase(<<record>>, "dish_sales", fails)
    /\ UNCHANGED <<localVars, sync, crawl, lookup, threads, parseVars>>

UploadSaveBatch ==
    /\ \E ok \in BOOLEAN : retry_with_backoff(ok)
    /\ UNCHANGED <<localVars, sync, procVars>>

UploadSaveEquityRecord ==
    /\ \E lookup_ok \in BOOLEAN, write_ok \in BOOLEAN :
           remote_equity_record(lookup_ok, write_ok)
    /\ UNCHANGED <<localVars, sync, procVars>>

RefreshInRun ==
    /\ \E ok \in BOOLEAN : RunRefresh(ok)
    /\ UNCHANGED <<localVars, sync, crawl, lookup, threads, parseVars>>

NextRun ==
    \/ UploadEquity
    \/ UploadBusiness
    \/ UploadDish
    \/ UploadSaveBatch
    \/ UploadSaveEquityRecord
    \/ RefreshInRun

SpecRun == InitLocal /\ [][NextRun]_vars

(***************************************************************************)
(* SpecLock: threads that call operations of one DatabaseManager.          *)
(***************************************************************************)
Enter ==
    /\ \E t \in Threads : EnterGetConnection(t)
    /\ UNCHANGED <<localVars, remoteVars, sync, crawl, lookup, run, parseVars>>

Acquire ==
    /\ \E t \in Threads : AcquireLock(t)
    /\ UNCHANGED <<localVars, remoteVars, sync, crawl, lookup, run, parseVars>>

Open ==
    /\ \E t \in Threads, ok \in BOOLEAN : Connect(t, ok)
    /\ UNCHANGED <<localVars, remoteVars, sync, crawl, lookup, run, parseVars>>

Leave ==
    /\ \E t \in Threads, how \in ScopeEnds : LeaveScope(t, how)
    /\ UNCHANGED <<localVars, remoteVars, sync, crawl, lookup, run, parseVars>>

Except ==
    /\ \E t \in Threads : Rollback(t)
    /\ UNCHANGED <<localVars, remoteVars, sync, crawl, lookup, run, parseVars>>

Finally ==
    /\ \E t \in Threads : CloseConnection(t)
    /\ UNCHANGED <<localVars, remoteVars, sync, crawl, lookup, run, parseVars>>

NextLock == Enter \/ Acquire \/ Open \/ Leave \/ Except \/ Finally

\* a thread that holds the lock goes on: connect returns or raises, and the
\* body of an operation is a loop over a list, which ends
SpecLock ==
    InitLocal /\ [][NextLock]_vars /\ WF_vars(Open) /\ WF_vars(Leave)

(***************************************************************************)
(* SpecStorage: local write calls with lists of records, which end         *)
(* normally or are interrupted by a storage error.                         *)
(***************************************************************************)
MaxStored == 2

StoredVals == {0, 1}

StoredEquityRecords ==
    [org_code : OrgCodes, store_name : ReportStoreNames, date : Dates,
     package_name : PackageNames, unit_price : {10},
     quantity_sold : StoredVals, total_sales : StoredVals]

\* with and without a store name
StoredBusinessRecords ==
    [store_name : ReportStoreNames \cup {NoName}, business_date : Dates,
     revenue : StoredVals, order_count : {1}, composition_data : {10}]

StoredDishRecords ==
    [store_name : ReportStoreNames, org_code : OrgCodes, business_date : Dates,
     dish_name : DishNames,
     sales_quantity : StoredVals, sales_amount : {1}, dish_income : {10}]

\* err = 0: no statement raises
StoreEquity ==
    /\ \E records \in ListsUpTo(StoredEquityRecords, MaxStored) :
          \E err \in 0..(Len(records) + 1) :
             IF err = 0 THEN save_equity_package_sales(records)
             ELSE save_equity_package_sales_interrupted(records, err)
    /\ UNCHANGED <<remoteVars, sync, procVars>>

StoreBusiness ==
    /\ \E records \in ListsUpTo(StoredBusinessRecords, MaxStored), force_update \in BOOLEAN :
          \E err \in 0..(Len(records) + 1) :
             IF err = 0 THEN save_business_summary(records, force_update)
             ELSE save_business_summary_interrupted(records, force_update, err)
    /\ UNCHANGED <<remoteVars, sync, procVars>>

StoreDish ==
    /\ \E records \in ListsUpTo(StoredDishRecords, MaxStored), force_update \in BOOLEAN :
          \E err \in 0..(Len(records) + 1) :
             IF err = 0 THEN save_dish_sales(records, force_update)
             ELSE save_dish_sales_interrupted(records, force_update, err)
    /\ UNCHANGED <<remoteVars, sync, procVars>>

NextStorage == StoreEquity \/ StoreBusiness \/ StoreDish

SpecStorage == InitLocal /\ [][NextStorage]_vars

(***************************************************************************)
(* SpecDecode: _flatten_headers on lists of header cells in document       *)
(* order, with spans that fit, overlap and overflow.                       *)
(***************************************************************************)
MaxCells == 3

HeaderTexts == {"A", "B", ""}

\* rowspan 4 at row 0 spans all header rows; 3 and 4 at row 3 overflow; the
\* cells without text are single cells
HeaderCells ==
    [text : HeaderTexts \ {""}, colspan : {1, 2}, rowspan : {1, 3, 4}, rowIndex : {0, 3}]
        \cup [text : {""}, colspan : {1}, rowspan : {1}, rowIndex : {0, 3}]

\* querySelectorAll('th') returns the cells in document order
InDocumentOrder(headers) ==
    \A k \in 1..(Len(headers) - 1) : headers[k].rowIndex <= headers[k + 1].rowIndex

HeaderLists ==
    {headers \in ListsUpTo(HeaderCells, MaxCells) \cup {<<>>} : InDocumentOrder(headers)}

InitDecode ==
    /\ InitRest
    /\ rowparse = NoRow
    /\ orch = NoOrch
    /\ pages = NoPages
    /\ wait = NoWait
    /\ decoder \in {[NoDecode EXCEPT !.pc = "input", !.headers = headers] :
                       headers \in HeaderLists}

Flatten ==
    /\ flatten_headers(decoder.headers)
    /\ UNCHANGED <<localVars, remoteVars, sync, crawl, lookup, run, threads, rowparse, orch, pages, wait>>

NextDecode == Flatten

SpecDecode == InitDecode /\ [][NextDecode]_vars

(***************************************************************************)
(* SpecParse: _parse_row on rows with valid and invalid dates and names,   *)
(* numeric and other cell texts, of full and of short length.              *)
(***************************************************************************)
\* 2025-12-11, 2025/12/11, abc, the empty text, 2025-02-31, 20ab-01-01,
\* 1999-01-01, 2025-13-01
RowDates ==
    {<<"2", "0", "2", "5", "-", "1", "2", "-", "1", "1">>,
     <<"2", "0", "2", "5", "/", "1", "2", "/", "1", "1">>,
     <<"a", "b", "c">>,
     <<>>,
     <<"2", "0", "2", "5", "-", "0", "2", "-", "3", "1">>,
     <<"2", "0", "a", "b", "-", "0", "1", "-", "0", "1">>,
     <<"1", "9", "9", "9", "-", "0", "1", "-", "0", "1">>,
     <<"2", "0", "2", "5", "-", "1", "3", "-", "0", "1">>}

\* a store name, 12345, the empty text, 12a
RowNames == {NameAlias1, <<"1", "2", "3", "4", "5">>, <<>>, <<"1", "2", "a">>}

\* 5, 1,234, 12.50, yen 7, --, nan, inf, the empty text
RowNumbers ==
    {<<"5">>, <<"1", ",", "2", "3", "4">>, <<"1", "2", ".", "5", "0">>, <<YenSign, "7">>,
     <<"-", "-">>, <<"n", "a", "n">>, <<"i", "n", "f">>, <<>>}

\* 7.5, n/a, 50%
RowTexts == {<<"7", ".", "5">>, <<"n", "/", "a">>, <<"5", "0", "%">>}

\* a row of the table has 21 cells; the page script lets rows of 10 cells
\* and more through
RowLengths == {15, 21}

\* the flattened column names, one per cell of a full row
RowColumnNames == [k \in 1..21 |-> "Col" \o ToString(k - 1)]

\* a row with the given name, date, operating_days, revenue and first
\* composition cell; every other cell holds 1
RowOf(len, name, date, days, revenue, comp) ==
    [k \in 1..len |->
        IF k = 3 THEN name ELSE IF k = 4 THEN date ELSE IF k = 6 THEN days
        ELSE IF k = 7 THEN revenue ELSE IF k = 21 THEN comp ELSE <<"1">>]

InitParseRow ==
    /\ InitRest
    /\ decoder = NoDecode
    /\ orch = NoOrch
    /\ pages = NoPages
    /\ wait = NoWait
    /\ rowparse \in
          {[NoRow EXCEPT !.pc = "input", !.column_names = RowColumnNames,
                         !.cells = RowOf(len, name, date, days, revenue, comp)] :
              len \in RowLengths, name \in RowNames, date \in RowDates,
              days \in RowNumbers, revenue \in RowNumbers, comp \in RowTexts}

ParseOneRow ==
    /\ parse_row(rowparse.cells, rowparse.column_names)
    /\ UNCHANGED <<localVars, remoteVars, sync, crawl, lookup, run, threads, decoder, orch, pages, wait>>

NextParse == ParseOneRow

SpecParse == InitParseRow /\ [][NextParse]_vars

(***************************************************************************)
(* SpecMain: the report loop of main with attempts that end in every way.  *)
(***************************************************************************)
\* reports_to_run: all reports, or the ones named on the command line
ReportLists ==
    {<<"equity_package_sales">>, <<"business_summary", "dish_sales">>}

StartMain ==
    /\ \E reports_to_run \in ReportLists : main_start(reports_to_run)
    /\ UNCHANGED <<localVars, remoteVars, sync, crawl, lookup, run, threads, decoder, rowparse, pages, wait>>

AttemptReport ==
    /\ \E event \in AttemptEvents : main_attempt(event)
    /\ UNCHANGED <<localVars, remoteVars, sync, crawl, lookup, run, threads, decoder, rowparse, pages, wait>>

NextMain == StartMain \/ AttemptReport

SpecMain == InitLocal /\ [][NextMain]_vars

(***************************************************************************)
(* SpecConcurrent: two threads write records of one key through one        *)
(* DatabaseManager.                                                        *)
(***************************************************************************)
Writers == {"t1", "t2"}

CallSave ==
    /\ \E t \in Writers, record \in EquityRecords : thread_save_equity_package_sales(t, record)
    /\ UNCHANGED <<remoteVars, sync, crawl, lookup, run, parseVars>>

Select ==
    /\ \E t \in Writers : thread_select(t)
    /\ UNCHANGED <<remoteVars, sync, crawl, lookup, run, parseVars>>

Commit ==
    /\ \E t \in Writers : thread_commit(t)
    /\ UNCHANGED <<remoteVars, sync, crawl, lookup, run, parseVars>>

NextConcurrent == CallSave \/ Acquire \/ Open \/ Select \/ Commit \/ Leave \/ Except \/ Finally

SpecConcurrent == InitLocal /\ [][NextConcurrent]_vars

(***************************************************************************)
(* SpecWait: the wait for the query results with polls of every outcome.   *)
(***************************************************************************)
StartWait ==
    /\ wait_start
    /\ UNCHANGED <<localVars, remoteVars, sync, crawl, lookup, run, threads, decoder, rowparse,
                   orch, pages>>

Poll ==
    /\ \E has_data \in BOOLEAN, has_error \in BOOLEAN : wait_poll(has_data, has_error)
    /\ UNCHANGED <<localVars, remoteVars, sync, crawl, lookup, run, threads, decoder, rowparse,
                   orch, pages>>

NextWait == StartWait \/ Poll

SpecWait == InitLocal /\ [][NextWait]_vars

(***************************************************************************)
(* SpecPages: extractions over tables of up to MaxPages pages, with page   *)
(* navigations that succeed or fail.                                       *)
(***************************************************************************)
MaxPages == 4

StartPages ==
    /\ \E total_pages \in 0..MaxPages, current_page \in 1..MaxPages, ok \in BOOLEAN :
          /\ current_page <= total_pages \/ current_page = 1
          /\ extract_all_pages_start(total_pages, current_page, ok)
    /\ UNCHANGED <<localVars, remoteVars, sync, crawl, lookup, run, threads, decoder, rowparse,
                   orch, wait>>

ExtractPage ==
    /\ \E ok \in BOOLEAN : extract_all_pages_page(ok)
    /\ UNCHANGED <<localVars, remoteVars, sync, crawl, lookup, run, threads, decoder, rowparse,
                   orch, wait>>

NextPages == StartPages \/ ExtractPage

SpecPages == InitLocal /\ [][NextPages]_vars

(***************************************************************************)
(* SpecComposition: rows that pass the checks of _parse_row, with up to    *)
(* MaxTail cells beyond the fixed columns, and header lists of every       *)
(* length with names that may repeat.                                      *)
(***************************************************************************)
MaxTail == 3

\* the cells beyond the fixed columns: 3 and 7.5
TailCells == {<<"3">>, <<"7", ".", "5">>}

\* the flattened names of the columns beyond the fixed ones
TailNames == {"A-x", "A-y"}

InitComposition ==
    /\ InitRest
    /\ decoder = NoDecode
    /\ orch = NoOrch
    /\ pages = NoPages
    /\ wait = NoWait
    /\ rowparse \in
          {[NoRow EXCEPT
              !.pc = "input",
              !.column_names = SubSeq(RowColumnNames, 1, MIN_ROW_CELLS) \o names,
              !.cells = RowOf(MIN_ROW_CELLS, NameAlias1,
                              <<"2", "0", "2", "5", "-", "1", "2", "-", "1", "1">>,
                              <<"5">>, <<"5">>, <<>>) \o tail] :
              tail \in ListsUpTo(TailCells, MaxTail) \cup {<<>>},
              names \in ListsUpTo(TailNames, MaxTail) \cup {<<>>}}

SpecComposition == InitComposition /\ [][NextParse]_vars

(***************************************************************************)
(* Claims on the local conditional-merge write path.                       *)
(***************************************************************************)
OneInserted == [inserted |-> 1, updated |-> 0, skipped |-> 0]
OneUpdated == [inserted |-> 0, updated |-> 1, skipped |-> 0]
OneSkipped == [inserted |-> 0, updated |-> 0, skipped |-> 1]

\* the rows of a table that carry the natural key of a record
SameEquityKey(a, b) ==
    a.org_code = b.org_code /\ a.date = b.date /\ a.package_name = b.package_name
SameBusinessKey(a, b) ==
    a.store_name = b.store_name /\ a.business_date = b.business_date
SameDishKey(a, b) ==
    a.store_name = b.store_name /\ a.business_date = b.business_date
        /\ a.dish_name = b.dish_name

C1Equity ==
    \A r \in EquityRecords, old \in mt_equity_package_sales :
        SameEquityKey(old, r) =>
            LET done == EquitySaved(mt_stores, mt_equity_package_sales, <<r>>)
            IN  IF r.quantity_sold > old.quantity_sold \/ r.total_sales > old.total_sales
                THEN /\ done.stats = OneUpdated
                     /\ done.table = (mt_equity_package_sales \ {old}) \cup {EquityRow(r)}
                ELSE /\ done.stats = OneSkipped
                     /\ done.table = mt_equity_package_sales

C1Business ==
    \A r \in BusinessRecords, old \in mt_business_summary :
        SameBusinessKey(old, r) =>
            LET done == BusinessSaved(mt_business_summary, <<r>>, FALSE)
            IN  IF r.revenue > old.revenue \/ r.order_count > old.order_count
                THEN /\ done.stats = OneUpdated
                     /\ done.table = (mt_business_summary \ {old}) \cup {BusinessRow(r)}
                ELSE /\ done.stats = OneSkipped
                     /\ done.table = mt_business_summary

C1Dish ==
    \A r \in DishRecords, old \in mt_dish_sales :
        SameDishKey(old, r) =>
            LET done == DishSaved(mt_dish_sales, <<r>>, FALSE)
            IN  IF r.sales_quantity > old.sales_quantity \/ r.sales_amount > old.sales_amount
                THEN /\ done.stats = OneUpdated
                     /\ done.table = (mt_dish_sales \ {old}) \cup {DishRow(r)}
                ELSE /\ done.stats = OneSkipped
                     /\ done.table = mt_dish_sales

\* the example of the claim: 5/100 stored, then 3/50 and 7/80 written
C1Stored ==
    [org_code |-> "MD00006", date |-> "2025-12-11", package_name |-> "p1",
     unit_price |-> 10, quantity_sold |-> 5, total_sales |-> 100]
C1Lower ==
    [org_code |-> "MD00006", store_name |-> NameAlias1, date |-> "2025-12-11",
     package_name |-> "p1", unit_price |-> 20, quantity_sold |-> 3, total_sales |-> 50]
C1Mixed == [C1Lower EXCEPT !.quantity_sold = 7, !.total_sales = 80]
C1Example ==
    LET low == EquitySaved({}, {C1Stored}, <<C1Lower>>)
        mix == EquitySaved({}, {C1Stored}, <<C1Mixed>>)
    IN  /\ low.stats = OneSkipped /\ low.table = {C1Stored}
        /\ mix.stats = OneUpdated /\ mix.table = {EquityRow(C1Mixed)}

C3_SameRecordTwice ==
    \A r \in EquityRecords :
        (\A old \in mt_equity_package_sales : ~SameEquityKey(old, r)) =>
            LET first == EquitySaved(mt_stores, mt_equity_package_sales, <<r>>)
                second == EquitySaved(first.stores, first.table, <<r>>)
            IN  /\ first.stats = OneInserted
                /\ first.table = mt_equity_package_sales \cup {EquityRow(r)}
                /\ second.stats = OneSkipped
                /\ second.table = first.table
                /\ second.stores = first.stores

\* a first write of a record has been made
C3_Witness ==
    /\ call.op = "save_equity_package_sales"
    /\ call.stats = OneInserted
    /\ Cardinality(mt_equity_package_sales) = 1

AddStats(a, b) ==
    [inserted |-> a.inserted + b.inserted, updated |-> a.updated + b.updated,
     skipped |-> a.skipped + b.skipped]

\* the records written one call at a time, each call on the tables the
\* call before it committed
RECURSIVE OneAtATime(_, _, _)
OneAtATime(db, records, i) ==
    IF i > Len(records) THEN db
    ELSE LET one == EquitySaved(db.stores, db.table, <<records[i]>>)
         IN  OneAtATime([stores |-> one.stores, table |-> one.table,
                         stats |-> AddStats(db.stats, one.stats)],
                        records, i + 1)

\* C10: in every reachable state, a write call of several records commits
\* the tables and returns the stats that writing its records one call at a
\* time, in the same order, commits and returns, also when a key occurs
\* several times in the list.
C10_BatchIsSequential ==
    \A records \in Batches :
        EquitySaved(mt_stores, mt_equity_package_sales, records) =
            OneAtATime([stores |-> mt_stores, table |-> mt_equity_package_sales,
                        stats |-> ZeroStats], records, 1)

\* one call inserted a key and updated it again
C10_Witness ==
    /\ call.stats.inserted = 1
    /\ call.stats.updated = MaxBatch - 1
    /\ Cardinality(mt_equity_package_sales) = 1

(***************************************************************************)
(* Claims on the remote write path.                                        *)
(***************************************************************************)
RemoteBusinessNotLowered(old, new) ==
    new = old \/ new.revenue > old.revenue \/ new.order_count > old.order_count

RemoteDishNotLowered(old, new) ==
    new = old \/ new.sales_quantity > old.sales_quantity
              \/ new.sales_amount > old.sales_amount

RemoteEquityNotLowered(old, new) ==
    new = old \/ new.quantity_sold > old.quantity_sold
              \/ new.total_sales > old.total_sales

C4Equity ==
    \A old \in sb_equity_package_sales :
        \E new \in sb_equity_package_sales' :
            new.id = old.id /\ RemoteEquityNotLowered(old, new)

C4Business ==
    \A old \in sb_business_summary :
        \E new \in sb_business_summary' :
            SameRemoteBusinessKey(old, new) /\ RemoteBusinessNotLowered(old, new)

C4Dish ==
    \A old \in sb_dish_sales :
        \E new \in sb_dish_sales' :
            SameRemoteDishKey(old, new) /\ RemoteDishNotLowered(old, new)

\* C4: no step of a remote save replaces a remote row, of equity package
\* sales, business summary or dish sales, by a record whose primacy values are
\* not higher: after the step the row is the same row, or one of its two
\* primacy values has grown.
C4_RemoteNeverLowers == [][C4Equity /\ C4Business /\ C4Dish]_vars

\* the remote equity save alone keeps a row that the record does not exceed
C4_EquityOnly == [][C4Equity]_vars

Unresolved(f) == {k \in 1..Len(f.resolved) : f.resolved[k] = None}

RECURSIVE ResolvedRecords(_, _, _, _)
\* the records of the call that found a restaurant, transformed, in input order
ResolvedRecords(op, records, resolved, k) ==
    IF k = 0 THEN <<>>
    ELSE LET before == ResolvedRecords(op, records, resolved, k - 1)
         IN  IF resolved[k] = None THEN before
             ELSE IF op = "save_business_summary"
                  THEN Append(before, BusinessTransform(records[k], resolved[k]))
                  ELSE Append(before, DishTransform(records[k], resolved[k]))

RestaurantIds == {MasterRestaurant[k].id : k \in 1..Len(MasterRestaurant)}

\* no remote row stands for an unresolved store
C5NeverWritten ==
    /\ \A row \in sb_equity_package_sales : row.restaurant_id \in RestaurantIds
    /\ \A row \in sb_business_summary : row.restaurant_id \in RestaurantIds
    /\ \A row \in sb_dish_sales : row.restaurant_id \in RestaurantIds

\* a batched save: every record has been looked at, the unresolved ones are
\* skipped and listed, the others are all handed to the batches in input
\* order, and are in the remote table when no batch failed
C5Batched ==
    rsave.op \in {"save_business_summary", "save_dish_sales"} =>
        /\ Len(rsave.resolved) = Len(rsave.records)
        /\ rsave.valid_records =
               ResolvedRecords(rsave.op, rsave.records, rsave.resolved, Len(rsave.records))
        /\ rsave.stats.skipped = Cardinality(Unresolved(rsave))
        /\ {rsave.stats.unknown_stores[k] : k \in 1..Len(rsave.stats.unknown_stores)}
               = {rsave.records[k].store_name : k \in Unresolved(rsave)}
        /\ \A k \in 1..Len(rsave.resolved) :
               rsave.resolved[k] # None =>
                   rsave.resolved[k] =
                       RestaurantIdByName(cache.names, rsave.records[k].store_name)
        /\ (rsave.pc = "returned" /\ rsave.stats.failed = 0) =>
               \A k \in 1..Len(rsave.valid_records) :
                   IF rsave.op = "save_business_summary"
                   THEN \E row \in sb_business_summary :
                            SameRemoteBusinessKey(row, rsave.valid_records[k])
                   ELSE \E row \in sb_dish_sales :
                            SameRemoteDishKey(row, rsave.valid_records[k])

\* the equity save: the loop has counted every record it has passed, an
\* unresolved one as skipped and listed; it returns only after the last
\* record, and then every resolved record has its row when no write failed
C5Equity ==
    rsave.op = "save_equity_package_sales" =>
        /\ Len(rsave.resolved) = rsave.i
        /\ rsave.pc = "returned" => rsave.i = Len(rsave.records)
        /\ rsave.stats.inserted + rsave.stats.updated + rsave.stats.skipped
               + rsave.stats.failed = rsave.i
        /\ rsave.stats.skipped >= Cardinality(Unresolved(rsave))
        /\ {rsave.stats.unknown_stores[k].org_code :
                k \in 1..Len(rsave.stats.unknown_stores)}
               = {rsave.records[k].org_code : k \in Unresolved(rsave)}
        /\ \A k \in 1..Len(rsave.resolved) :
               rsave.resolved[k] = DictGet(cache.codes, rsave.records[k].org_code)
        /\ (rsave.pc = "returned" /\ rsave.stats.failed = 0) =>
               \A k \in 1..Len(rsave.resolved) :
                   rsave.resolved[k] # None =>
                       RemoteEquityMatches(sb_equity_package_sales, rsave.resolved[k],
                                           rsave.records[k]) # {}

\* C5: in every remote save a record whose store cannot be resolved is never
\* written and is counted as skipped; the call goes on to its last record, all
\* the other records are processed and, when no remote write fails, written,
\* and the call ends in its return.
C5_UnknownStoreIsolated ==
    /\ rsave.pc \in {"idle", "record", "batch", "returned"}
    /\ C5NeverWritten
    /\ C5Batched
    /\ C5Equity

\* a returned business save of three records whose second has an unknown
\* store: the first and the third are in the remote table
C5_Witness ==
    /\ rsave.pc = "returned"
    /\ rsave.op = "save_business_summary"
    /\ Len(rsave.records) = 3
    /\ rsave.resolved = <<"uuid1", None, "uuid2">>
    /\ rsave.stats.unknown_stores = <<NameUnknown>>
    /\ rsave.stats.failed = 0
    /\ \A k \in 1..2 : rsave.valid_records[k] \in sb_business_summary

Failures(outcomes) == Cardinality({k \in 1..Len(outcomes) : ~outcomes[k]})

\* what an invocation of the retry helper has done so far
C8Helper ==
    LET r == rsave.retry
    IN  r.result # "none" =>
            /\ Len(r.outcomes) <= 3
            /\ \A k \in 1..(Len(r.outcomes) - 1) : ~r.outcomes[k]
            /\ r.sleeps = SubSeq(<<2, 4>>, 1, Min(Failures(r.outcomes), 2))
            /\ r.result = "True" <=>
                   (r.outcomes # <<>> /\ r.outcomes[Len(r.outcomes)])
            /\ r.result = "False" <=> Failures(r.outcomes) = 3

\* C8: the retry helper calls the operation at most 3 times and not again
\* after a success, has slept 2 s after the first failure and 4 s after the
\* second and never after the third, returns True exactly at the first
\* success and False exactly after three failures; and a running helper
\* always comes to return.
C8_RetryBounded ==
    /\ []C8Helper
    /\ (rsave.retry.result = "running") ~> (rsave.retry.result \in {"True", "False"})

\* the helper has returned False after three failed calls and two sleeps
C8_Witness ==
    /\ rsave.retry.result = "False"
    /\ rsave.retry.outcomes = <<FALSE, FALSE, FALSE>>
    /\ rsave.retry.sleeps = <<2, 4>>

Batched == rsave.op \in {"save_business_summary", "save_dish_sales"}

\* no step of a batched save takes a row out of its remote table
C9StayWritten ==
    /\ \A row \in sb_business_summary :
           \E new \in sb_business_summary' : SameRemoteBusinessKey(row, new)
    /\ \A row \in sb_dish_sales :
           \E new \in sb_dish_sales' : SameRemoteDishKey(row, new)

\* the step in which the helper gives up on the current batch
C9BatchFails ==
    /\ rsave.pc = "batch"
    /\ rsave' # rsave
    /\ rsave'.retry.result = "False"

C9Step ==
    /\ Batched => C9StayWritten
    /\ C9BatchFails =>
           /\ rsave'.stats.failed = rsave.stats.failed + Len(CurrentBatch(rsave))
           /\ rsave'.stats.updated = rsave.stats.updated
           /\ UNCHANGED <<sb_business_summary, sb_dish_sales>>
           /\ rsave'.i = rsave.i + BATCH_SIZE
           /\ rsave'.pc = IF rsave'.i < Len(rsave.valid_records) THEN "batch" ELSE "returned"
    /\ (rsave'.op \in {"save_business_summary", "save_dish_sales"}
            /\ rsave'.pc = "returned") =>
           /\ rsave'.i >= Len(rsave'.valid_records)
           /\ rsave'.stats.updated + rsave'.stats.failed
                  = Len(rsave'.resolved) - Cardinality(Unresolved(rsave'))

\* C9: in a batched remote save, the step in which a batch exhausts its
\* retries adds the batch's length to failed and changes no remote row, the
\* rows written by earlier batches stay, the loop moves to the next batch
\* whenever one is left, and on return updated + failed is the number of
\* records whose store was resolved.
C9_FailedBatchIsolated == [][C9Step]_vars

\* a returned save whose first batch failed and whose last batch was written
C9_Witness ==
    /\ rsave.pc = "returned"
    /\ rsave.op = "save_dish_sales"
    /\ Len(rsave.valid_records) > BATCH_SIZE
    /\ rsave.stats.failed = BATCH_SIZE
    /\ rsave.stats.updated = Len(rsave.valid_records) - BATCH_SIZE
    /\ rsave.retry.result = "True"

(***************************************************************************)
(* Claims on the sync.                                                     *)
(***************************************************************************)
\* the key of a remote business row in local form
TranslatedBusinessKey(row) ==
    <<MeituanName(RestaurantOf(row.restaurant_id).restaurant_name), row.business_date>>

\* the key of a remote equity row in local form, for a restaurant with org code
TranslatedEquityKey(row) ==
    <<RestaurantOf(row.restaurant_id).meituan_org_code, row.date, row.package_name>>

\* the records whose key the destination does not hold, for each sync step,
\* on the tables as they are
MissingLocallyEquity ==
    {PullEquityRecord(row) :
        row \in {r \in sb_equity_package_sales :
                    /\ RestaurantOf(r.restaurant_id).meituan_org_code # None
                    /\ \A l \in mt_equity_package_sales :
                           <<l.org_code, l.date, l.package_name>> # TranslatedEquityKey(r)}}

MissingLocallyBusiness ==
    {PullBusinessRecord(row) :
        row \in {r \in sb_business_summary :
                    \A l \in mt_business_summary :
                        <<l.store_name, l.business_date>> # TranslatedBusinessKey(r)}}

MissingRemotelyEquity ==
    {record \in GetEquitySales(mt_stores, mt_equity_package_sales) :
        \A r \in sb_equity_package_sales :
            \/ RestaurantOf(r.restaurant_id).meituan_org_code = None
            \/ TranslatedEquityKey(r) # <<record.org_code, record.date, record.package_name>>}

MissingRemotelyBusiness ==
    {record \in mt_business_summary :
        \A r \in sb_business_summary :
            TranslatedBusinessKey(r) # <<record.store_name, record.business_date>>}

\* a pull or a push is taken, outside a dry run, and reads its source
C6Transfers ==
    /\ sync.pc # "saving"
    /\ ~sync'.dry_run
    /\ sync'.source_ok

C6Exact ==
    /\ sync'.op = "pull_equity_package_sales" => sync'.handed = MissingLocallyEquity
    /\ sync'.op = "pull_business_summary" => sync'.handed = MissingLocallyBusiness
    /\ sync'.op = "push_equity_package_sales" => sync'.handed = MissingRemotelyEquity
    /\ sync'.op = "push_business_summary" => sync'.handed = MissingRemotelyBusiness

\* C6: a pull hands to the local write path exactly the remote records whose
\* key in local form is not a local key, and a push hands to the remote write
\* path exactly the local records whose key is not a remote key; a record
\* whose key is on both sides is never handed over.
C6_TransfersExactlyDifference == [][C6Transfers => C6Exact]_vars

\* the same when the read of the destination keys returns
C6_WhenKeysRead == [][(C6Transfers /\ sync'.keys_ok) => C6Exact]_vars

\* a business push has handed records over, its reads returned, and its
\* remote save has returned without a failed record
C7CleanPush ==
    /\ sync.op = "push_business_summary"
    /\ sync.pc = "done"
    /\ ~sync.dry_run
    /\ sync.source_ok /\ sync.keys_ok
    /\ sync.handed # {}
    /\ rsave.pc = "returned"
    /\ rsave.stats.failed = 0

\* the pushed record k and its remote row compare equal by key
C7SameKey(k) ==
    <<MeituanName(RestaurantOf(rsave.resolved[k]).restaurant_name),
      rsave.records[k].business_date>>
        = <<rsave.records[k].store_name, rsave.records[k].business_date>>

\* C7: after a business push in which no record failed, every pushed record
\* and its remote row compare equal by key once the remote name is mapped
\* back, so that a second push would hand nothing over and a pull would hand
\* over none of the pushed records.
C7_PushIsIdempotent ==
    C7CleanPush =>
        /\ \A k \in 1..Len(rsave.records) :
               rsave.resolved[k] # None => C7SameKey(k)
        /\ PushBusinessToPush(mt_business_summary,
                              CloudBusinessKeys(sb_business_summary, TRUE)) = {}
        /\ \A k \in 1..Len(rsave.valid_records) :
               PullBusinessRecord(rsave.valid_records[k]) \notin
                   PullBusinessToAdd(sb_business_summary,
                                     LocalBusinessKeys(mt_business_summary, TRUE))

\* the same for the pushes whose records are resolved through the alias table
\* or by their exact name
C7_AliasOrExact ==
    (C7CleanPush /\ \A record \in sync.handed : record.store_name # NameFuzzy2)
        => /\ \A k \in 1..Len(rsave.records) :
                  rsave.resolved[k] # None => C7SameKey(k)
           /\ PushBusinessToPush(mt_business_summary,
                                 CloudBusinessKeys(sb_business_summary, TRUE)) = {}


(***************************************************************************)
(* Claims on the crawlers.                                                 *)
(***************************************************************************)
\* the crawl of this step has handed its one record to the store, which has
\* opened and gone through it
C11Forced(report) ==
    /\ crawl'.report = report
    /\ crawl'.success = TRUE
    /\ crawl'.force_update
    /\ Len(crawl'.records) = 1
    /\ call'.stats # ZeroStats

C11Equity ==
    C11Forced("equity_package_sales") =>
        \A old \in SelectEquity(mt_equity_package_sales, crawl'.records[1]) :
            /\ call'.stats = OneUpdated
            /\ mt_equity_package_sales' =
                   (mt_equity_package_sales \ {old}) \cup {EquityRow(crawl'.records[1])}

C11Business ==
    C11Forced("business_summary") =>
        \A old \in SelectBusiness(mt_business_summary, crawl'.records[1]) :
            /\ call'.stats = OneUpdated
            /\ mt_business_summary' =
                   (mt_business_summary \ {old}) \cup {BusinessRow(crawl'.records[1])}

C11Dish ==
    C11Forced("dish_sales") =>
        \A old \in SelectDish(mt_dish_sales, crawl'.records[1]) :
            /\ call'.stats = OneUpdated
            /\ mt_dish_sales' =
                   (mt_dish_sales \ {old}) \cup {DishRow(crawl'.records[1])}

\* C11: in a crawl run with force, of equity package sales, business summary
\* or dish sales, the write of a record to an existing key overwrites all
\* non-key fields of the row and counts as updated, whatever the stored
\* values are.
C11_ForceOverwrites == [][C11Equity /\ C11Business /\ C11Dish]_vars

\* with force, the business-summary and the dish-sales crawls do overwrite
C11_BusinessAndDish == [][C11Business /\ C11Dish]_vars


(***************************************************************************)
(* Claims on the local tables.                                             *)
(***************************************************************************)
\* C12: in every reachable state of the local store, after any sequence of
\* write calls, no table holds two rows with the same natural key: (org_code,
\* date, package_name) in mt_equity_package_sales, (store_name,
\* business_date) in mt_business_summary, (store_name, business_date,
\* dish_name) in mt_dish_sales.
C12_NaturalKeysUnique ==
    /\ \A a, b \in mt_equity_package_sales : SameEquityKey(a, b) => a = b
    /\ \A a, b \in mt_business_summary : SameBusinessKey(a, b) => a = b
    /\ \A a, b \in mt_dish_sales : SameDishKey(a, b) => a = b

\* every table holds a row, and the last call has written to a key that was
\* there, with other values
C12_Witness ==
    /\ call.op = "save_equity_package_sales"
    /\ call.stats = OneUpdated
    /\ \E row \in mt_equity_package_sales : row.unit_price = 20
    /\ mt_business_summary # {}
    /\ mt_dish_sales # {}


\* the store of the record's code is there, under the record's name
StoreOf(stores, record) ==
    /\ [org_code |-> record.org_code, store_name |-> record.store_name] \in stores
    /\ \A a, b \in stores : a.org_code = b.org_code => a = b

\* the store names that a report may print for a code
C13Names == {NameAlias1, NameCanon2}

C13Equity ==
    \A r \in EquityRecords :
        save_equity_package_sales(<<r>>) => StoreOf(mt_stores', r)

C13Dish ==
    \A r \in DishRecords, force_update \in BOOLEAN :
        save_dish_sales(<<r>>, force_update) => StoreOf(mt_stores', r)

\* C13: every local write call of an equity-package-sale record or of a
\* dish-sale record leaves a store row for the record's code, whose name is
\* the one the record carries, whether the fact row is inserted, updated or
\* skipped.
C13_StoreUpserted == [][C13Equity /\ C13Dish]_vars

\* the equity write does so, from any stored name, also when it skips the
\* fact row
C13_EquityOnly ==
    \A r \in EquityRecords, n \in C13Names :
        LET record == [r EXCEPT !.store_name = n]
            done == EquitySaved(mt_stores, mt_equity_package_sales, <<record>>)
        IN  StoreOf(done.stores, record)


(***************************************************************************)
(* Claims on defective records.                                            *)
(***************************************************************************)
\* the records of the returned remote call are all counted
C15Counted ==
    rsave.pc = "returned" =>
        rsave.stats.inserted + rsave.stats.updated + rsave.stats.skipped
            + rsave.stats.failed = Len(rsave.records)

\* C15: no write call of the local or of the remote store ends in an
\* exception because one record of its list is defective (a missing field,
\* a composition text that is not JSON); the call returns stats that count
\* every record of the list.
C15_DefectiveRecordIsolated ==
    /\ ~call.raised
    /\ rsave.pc # "raised"
    /\ C15Counted

\* a record without a store name is counted as skipped and the call goes on
C15_MissingNameSkipped ==
    (rsave.pc \in {"batch", "returned"}) =>
        \A k \in 1..Len(rsave.records) :
            rsave.records[k].store_name = NoName => rsave.resolved[k] = None


(***************************************************************************)
(* Claims on the identity resolution.                                      *)
(***************************************************************************)
\* the canonical name of the looked-up name is cached
C14AliasHit ==
    /\ DictHas(MEITUAN_STORE_NAME_MAP, lookup.store_name)
    /\ DictHas(cache.names, DictGet(MEITUAN_STORE_NAME_MAP, lookup.store_name))

C14ExactHit == DictHas(cache.names, lookup.store_name)

\* the places of the cached names that contain the looked-up name or are
\* contained in it
C14Containing ==
    {k \in 1..Len(cache.names) :
        \/ IsSubstring(cache.names[k].key, lookup.store_name)
        \/ IsSubstring(lookup.store_name, cache.names[k].key)}

\* C14: a lookup by name returns the cached id of the alias table's canonical
\* name when the name is an alias whose canonical name is cached; else the
\* cached id of the name itself when it is cached; else the id of the first
\* cached name that contains the name or is contained in it; and None only
\* when all three fail.  A substring match never overrides the first two.
C14_ResolutionOrder ==
    lookup.result # Unset =>
        /\ C14AliasHit =>
               lookup.result =
                   DictGet(cache.names, DictGet(MEITUAN_STORE_NAME_MAP, lookup.store_name))
        /\ ~C14AliasHit /\ C14ExactHit =>
               lookup.result = DictGet(cache.names, lookup.store_name)
        /\ ~C14AliasHit /\ ~C14ExactHit /\ C14Containing # {} =>
               \E k \in C14Containing :
                   /\ \A j \in C14Containing : k <= j
                   /\ lookup.result = cache.names[k].value
        /\ lookup.result = None <=>
               ~C14AliasHit /\ ~C14ExactHit /\ C14Containing = {}

\* an exact match has been returned although an earlier cached name is
\* contained in the looked-up name, and an alias although the alias itself
\* is cached
C14_Witness ==
    /\ lookup.store_name = NameCanon1
    /\ lookup.result = "uuid1"
    /\ Len(cache.names) = 4
    /\ cache.names[1].key = NameShort


\* the store fails to open in the write call of this step's crawl
C16OpenFails ==
    \/ \E record \in RemoteEquityRecords, force_update \in BOOLEAN :
           EquityPackageSalesCrawl(force_update, <<record>>, TRUE, FALSE)
    \/ \E record \in BusinessRecords, force_update \in BOOLEAN :
           BusinessSummaryCrawl(force_update, <<record>>, TRUE, FALSE)
    \/ \E record \in DishRecords, force_update \in BOOLEAN :
           DishSalesCrawl(force_update, <<record>>, TRUE, FALSE)

\* C16: when the local store cannot be opened, at the construction of the
\* manager or in a write call, the failure leaves the operation as an
\* exception, at once, and the crawl that issued the write does not report
\* success.
C16_OpenFailurePropagates ==
    [][/\ DatabaseManagerInit(FALSE) => crawl'.db = "raised"
       /\ C16OpenFails => call'.raised /\ crawl'.success # TRUE]_vars

\* at construction the failure is raised, once, and no crawl runs after it
C16_AtInit == crawl.db = "raised" => crawl.report = "none" /\ call = NoCall


(***************************************************************************)
(* Claims on the identity cache.                                           *)
(***************************************************************************)
\* C17: over the uploads of all the reports of one run, with their lookups
\* and saves, the number of bulk fetches of the identity mapping is at most
\* one plus the number of explicit refreshes.
C17_FetchedOncePerRun == run.selects <= 1 + run.refreshes

\* each manager of the run fetches the mapping with success at most once,
\* plus once per refresh
C17_OncePerManager ==
    run.selects - run.failed <= Cardinality(run.reports) + run.refreshes


(***************************************************************************)
(* Claims on the remote write failures.                                    *)
(***************************************************************************)
\* this step counts records as failed
C18CountsFailed == rsave'.stats.failed > rsave.stats.failed

\* the write has been called MAX_RETRIES times and has raised each time
C18Retried ==
    /\ rsave'.retry.result = "False"
    /\ Len(rsave'.retry.outcomes) = MAX_RETRIES
    /\ \A k \in 1..MAX_RETRIES : rsave'.retry.outcomes[k] = FALSE

\* C18: in every remote save, of equity package sales, business summary or
\* dish sales, the records of a write are counted as failed only after the
\* write has been attempted up to the retry bound.
C18_FailedAfterRetries == [][C18CountsFailed => C18Retried]_vars

\* the batched saves count a batch as failed after the retries only
C18_BatchedOnly ==
    [][C18CountsFailed /\ rsave'.op # "save_equity_package_sales" => C18Retried]_vars


(***************************************************************************)
(* Claims on the lock of the local store.                                  *)
(***************************************************************************)
\* the threads inside `with self._lock:`
C19InScope == {t \in Threads : threads.pc[t] \in {"locked", "scope"}}

\* C19: with any number of threads calling operations of the local store, at
\* most one of them is inside a connection scope at any time, the lock is
\* held by that thread and by no thread whose scope has ended (by a return,
\* by a storage error or by another exception), and a held lock is always
\* released, so that no later operation waits forever for it.
C19_OneScopeAtATime ==
    /\ [](Cardinality(C19InScope) <= 1)
    /\ [](\A t \in Threads : threads.lock = t <=> t \in C19InScope)
    /\ (threads.lock # None) ~> (threads.lock = None)

\* a thread is in its scope while a second one waits for the lock and a third
\* one, whose scope has ended with a storage error, has not closed its
\* connection yet
C19_Witness ==
    /\ threads.pc["t1"] = "scope"
    /\ threads.pc["t2"] = "waiting"
    /\ threads.pc["t3"] = "except"
    /\ threads.conn["t3"] = "open"


(***************************************************************************)
(* Claims on the unknown-store figure of the remote saves.                 *)
(***************************************************************************)
\* the records of a returned save that the four counters account for
C20Counted ==
    rsave.stats.inserted + rsave.stats.updated + rsave.stats.skipped + rsave.stats.failed

\* the stores, by the key the save looks them up with, that did not resolve
C20UnknownStores ==
    {IF rsave.op = "save_equity_package_sales" THEN rsave.records[k].org_code
     ELSE rsave.records[k].store_name : k \in Unresolved(rsave)}

\* C20: when a remote save has returned, the unknown-store figure of its
\* stats is the number of input records whose store did not resolve, and
\* these records are in none of the other counters: inserted, updated,
\* skipped and failed add up to the number of the remaining records.
C20_UnknownStoreFigure ==
    rsave.pc = "returned" =>
        /\ Len(rsave.stats.unknown_stores) = Cardinality(Unresolved(rsave))
        /\ C20Counted = Len(rsave.records) - Cardinality(Unresolved(rsave))

\* what the saves return: one entry per unknown store, however many records
\* it has, and every record, the unresolved ones as skipped, in one of the
\* four counters
C20_OneEntryPerStore ==
    rsave.pc = "returned" =>
        /\ Len(rsave.stats.unknown_stores) = Cardinality(C20UnknownStores)
        /\ rsave.stats.skipped >= Cardinality(Unresolved(rsave))
        /\ C20Counted = Len(rsave.records)


(***************************************************************************)
(* Claims on the stats of the local write calls.                           *)
(***************************************************************************)
\* the records that the stats of the last local write call account for
C21Counted == call.stats.inserted + call.stats.updated + call.stats.skipped

\* C21: after every local write call that ended without a storage error (and
\* without another exception), inserted + updated + skipped is the number of
\* records the call was given: every record is counted once, under one of
\* the three.
C21_EveryRecordCountedOnce ==
    (call.op # "none" /\ call.error = 0 /\ ~call.raised) => C21Counted = call.count

\* a call with two records, one inserted and one skipped, and no storage error
C21_Witness ==
    /\ call.op = "save_business_summary"
    /\ call.error = 0
    /\ call.count = 2
    /\ call.stats = [inserted |-> 1, updated |-> 0, skipped |-> 1]


\* the four local tables
C29Tables == <<mt_stores, mt_equity_package_sales, mt_business_summary, mt_dish_sales>>

\* C29: a local write call that a storage error interrupts persists none of
\* its records, and the stats it returns report no record as inserted or
\* updated, none having been persisted.
C29_AllOrNothing ==
    [][call'.error > 0 =>
          /\ C29Tables' = C29Tables
          /\ call'.stats.inserted = 0
          /\ call'.stats.updated = 0]_vars

\* the rollback: an interrupted call leaves the four tables as they were
C29_NothingPersisted ==
    [][call'.error > 0 => C29Tables' = C29Tables]_vars


(***************************************************************************)
(* Claims on the header decoder.                                           *)
(***************************************************************************)
\* the cells of row 0 of the decoded list
C22Row0 == RowCells(decoder.headers, 0)

\* the row-0 cell over column col (0-based): the k-th, when the colspans of
\* the cells before it add up to at most col and with its own to more
C22Over(col) ==
    CHOOSE k \in 1..Len(C22Row0) :
        /\ SumColspan(SubSeq(C22Row0, 1, k - 1)) <= col
        /\ col < SumColspan(SubSeq(C22Row0, 1, k))

\* the names that begin with the level text: text followed by up to three
\* further levels
C22NamesFrom(text) ==
    {Join(<<text>> \o rest) :
        rest \in {<<>>} \cup ListsUpTo(HeaderTexts \ {""}, HEADER_ROWS - 1)}

\* C22: for every list of header cells, whatever their rowspans and colspans,
\* the decoder assigns no position outside its 4 x N grid and returns exactly
\* N names, N being the sum of the colspans of row 0, in column order: the
\* name of each column begins with the text of the row-0 cell over it.
C22_OneNamePerColumn ==
    decoder.pc = "returned" =>
        /\ ~decoder.index_error
        /\ Len(decoder.names) = SumColspan(C22Row0)
        /\ \A c \in 1..Len(decoder.names) :
               C22Row0[C22Over(c - 1)].text # "" =>
                   decoder.names[c] \in C22NamesFrom(C22Row0[C22Over(c - 1)].text)

\* two columns; the cell of row 3 has rowspan 4 and colspan 2 and starts in
\* the second column, so it is cut at the bottom and at the right edge
C22_Witness ==
    /\ decoder.pc = "returned"
    /\ decoder.headers =
           <<[text |-> "A", colspan |-> 1, rowspan |-> 4, rowIndex |-> 0],
             [text |-> "B", colspan |-> 1, rowspan |-> 1, rowIndex |-> 0],
             [text |-> "A", colspan |-> 2, rowspan |-> 4, rowIndex |-> 3]>>
    /\ decoder.names = <<"A", "B-A">>

\* C23: after the decoder has gone through all header cells, every cell has
\* been placed and the number of occupied positions is the sum, over the
\* cells, of the positions each was written to (its rowspan times colspan,
\* cut at the grid edges): no cell is dropped and no position is written by
\* two cells.
C23_OccupiedIsSumOfSpans ==
    decoder.pc = "returned" =>
        /\ decoder.placed = Len(decoder.headers)
        /\ Cardinality(decoder.occupied) = decoder.written

\* what holds for every list: never more occupied positions than written
\* ones, and a header of one row only is placed without loss or overlap
C23_RowZeroOnly ==
    decoder.pc = "returned" =>
        /\ Cardinality(decoder.occupied) <= decoder.written
        /\ decoder.placed <= Len(decoder.headers)
        /\ Len(C22Row0) = Len(decoder.headers) =>
               /\ decoder.placed = Len(decoder.headers)
               /\ Cardinality(decoder.occupied) = decoder.written

\* the values of a column, top to bottom, that are neither None nor empty
C24Values(col) ==
    SelectSeq([r \in 1..HEADER_ROWS |-> decoder.grid[<<r - 1, col>>]],
              LAMBDA v : v # None /\ v # "")

\* the values that differ from the value just before them
C24Kept(col) ==
    LET vals == C24Values(col)
        keep == {k \in 1..Len(vals) : k = 1 \/ vals[k] # vals[k - 1]}
    IN  [n \in 1..Cardinality(keep) |->
            vals[CHOOSE k \in keep : Cardinality({j \in keep : j <= k}) = n]]

\* C24: each flattened name is the join, top to bottom, of the non-empty
\* values of its column without the values equal to the one kept just before
\* them, and the placeholder Col<index> when the column has no value; so the
\* path A, A, A, B gives A-B and a row-0 cell over all four rows gives a
\* single-level name.
C24_NameIsCollapsedPath ==
    decoder.pc = "returned" =>
        /\ \A c \in 1..Len(decoder.names) :
               decoder.names[c] = IF C24Kept(c - 1) = <<>> THEN "Col" \o ToString(c - 1)
                                  ELSE Join(C24Kept(c - 1))
        /\ \A c \in 1..Len(decoder.names) :
               /\ [r \in 1..HEADER_ROWS |-> decoder.grid[<<r - 1, c - 1>>]]
                      = <<"A", "A", "A", "B">> => decoder.names[c] = "A-B"
               /\ [r \in 1..HEADER_ROWS |-> decoder.grid[<<r - 1, c - 1>>]]
                      = <<"A", "A", "A", "A">> => decoder.names[c] = "A"

\* three columns: the path A, A, A, B, a cell over all four rows, and a
\* column of an empty text
C24_Witness ==
    /\ decoder.pc = "returned"
    /\ decoder.headers =
           <<[text |-> "A", colspan |-> 1, rowspan |-> 3, rowIndex |-> 0],
             [text |-> "", colspan |-> 1, rowspan |-> 1, rowIndex |-> 0],
             [text |-> "B", colspan |-> 1, rowspan |-> 1, rowIndex |-> 3]>>
    /\ decoder.names = <<"A-B", "Col1">>


(***************************************************************************)
(* Claims on the row parser.                                               *)
(***************************************************************************)
\* the texts YYYY-MM-DD and YYYY/MM/DD that name a day of the calendar, the
\* year written with four digits that begin with 20
C26CalendarDate(date_str) ==
    LET parts == Split(Concat(Replace(date_str, "/", <<"-">>)), "-")
    IN  /\ Len(parts) = 3
        /\ Len(parts[1]) = 4 /\ IsDigit(parts[1]) /\ SubSeq(parts[1], 1, 2) = <<"2", "0">>
        /\ IsDigit(parts[2]) /\ DigitsValue(parts[2]) \in 1..12
        /\ IsDigit(parts[3])
        /\ DigitsValue(parts[3]) \in
              1..(IF DigitsValue(parts[2]) = 2
                  THEN (IF DigitsValue(parts[1]) % 4 = 0 /\ DigitsValue(parts[1]) % 100 # 0
                        THEN 29 ELSE 28)
                  ELSE IF DigitsValue(parts[2]) \in {4, 6, 9, 11} THEN 30 ELSE 31)


\* the name, date, operating_days, revenue and first composition cell of the
\* parsed row
C25Name == rowparse.cells[3]
C25Date == rowparse.cells[4]

\* a cell text that writes a number, once commas, currency signs and blanks
\* around are taken out
C25Numeric(text) == Cleaned(text) # <<>> /\ FloatOf(Cleaned(text)).kind = "finite"

\* the fields of a record whose cells are given in C25 and C27 rows
C25NumberColumns == {k \in 1..Len(FIXED_COLUMNS) : FIXED_COLUMNS[k][3] \in {"number", "decimal"}}

\* every numeric field of the record whose cell writes no number is 0
C25Defaulted ==
    \A k \in C25NumberColumns :
        ~C25Numeric(At(rowparse.cells, FIXED_COLUMNS[k][1])) =>
            rowparse.result.fields[FIXED_COLUMNS[k][2]]
                \in {Value("int", 0), Value("float", Zero)}

\* C25: a row whose date is no valid date or whose name is empty or purely
\* numeric yields no record and raises no error; a row with a valid date and
\* a non-numeric name yields a record, in which every numeric field whose
\* cell cannot be parsed is 0.
C25_RowsDroppedOrDefaulted ==
    rowparse.pc = "returned" =>
        IF ~C26CalendarDate(C25Date) \/ C25Name = <<>> \/ IsDigit(C25Name)
        THEN rowparse.result.outcome = "none"
        ELSE rowparse.result.outcome = "record" /\ C25Defaulted

\* the cells of the integer columns that float() reads as nan or inf
C25NanOrInf ==
    \E k \in 1..Len(FIXED_COLUMNS) :
        /\ FIXED_COLUMNS[k][3] = "number"
        /\ FIXED_COLUMNS[k][1] < Len(rowparse.cells)
        /\ FloatOf(Cleaned(At(rowparse.cells, FIXED_COLUMNS[k][1]))).kind \in {"nan", "inf"}

\* every numeric field whose cell float() rejects, or is empty, is 0
C25DefaultedWhenRejected ==
    \A k \in C25NumberColumns :
        LET cleaned == Cleaned(At(rowparse.cells, FIXED_COLUMNS[k][1]))
        IN  (cleaned = <<>> \/ FloatOf(cleaned).kind = ValueError) =>
                rowparse.result.fields[FIXED_COLUMNS[k][2]]
                    \in {Value("int", 0), Value("float", Zero)}

\* what the parser does: a row of fewer than 20 cells yields no record; a
\* longer row raises when a cell of an integer column reads nan or inf; any
\* other row yields a record when _is_valid_date accepts its date and its
\* name is neither empty nor all digits, with 0 for the cells that float()
\* rejects, and no record otherwise
C25_FullRowsWithoutNan ==
    rowparse.pc = "returned" =>
        IF Len(rowparse.cells) < MIN_ROW_CELLS THEN rowparse.result.outcome = "none"
        ELSE IF C25NanOrInf THEN rowparse.result.outcome = "raised"
        ELSE IF ~is_valid_date(Concat(Replace(C25Date, "/", <<"-">>)))
                \/ C25Name = <<>> \/ IsDigit(C25Name)
        THEN rowparse.result.outcome = "none"
        ELSE rowparse.result.outcome = "record" /\ C25DefaultedWhenRejected

\* C26: a row yields a record only if its date field names a day of the
\* calendar: a year of four digits that begins with 20, a month from 1 to
\* 12 and a day that the month has.
C26_OnlyCalendarDates ==
    (rowparse.pc = "returned" /\ rowparse.result.outcome = "record") =>
        C26CalendarDate(C25Date)

\* what _is_valid_date checks: three parts, a first part of four characters
\* that begins with 20, a month from 1 to 12, a day from 1 to 31
C26_ShapeOnly ==
    (rowparse.pc = "returned" /\ rowparse.result.outcome = "record") =>
        LET parts == Split(Concat(Replace(C25Date, "/", <<"-">>)), "-")
        IN  /\ Len(parts) = 3
            /\ Len(parts[1]) = 4 /\ SubSeq(parts[1], 1, 2) = <<"2", "0">>
            /\ IsDigit(parts[2]) /\ DigitsValue(parts[2]) \in 1..12
            /\ IsDigit(parts[3]) /\ DigitsValue(parts[3]) \in 1..31

\* the cell of the composition column i (0-based)
C27Cell(i) == At(rowparse.cells, i)

\* C27: each value of the composition payload of a record is the number
\* parsed from its cell when the cell text is numeric, and the text of the
\* cell when it is not.
C27_NumberOrRawText ==
    (rowparse.pc = "returned" /\ rowparse.result.outcome = "record") =>
        \A i \in MIN_ROW_CELLS..(Len(rowparse.cells) - 1) :
            rowparse.result.composition_data[At(rowparse.column_names, i)] =
                IF C25Numeric(C27Cell(i)) THEN Value("float", FloatOf(Cleaned(C27Cell(i))))
                ELSE Value("str", C27Cell(i))

\* what the payload holds: a float for every cell, 0.0 for a cell that is
\* not numeric
C27_AlwaysANumber ==
    (rowparse.pc = "returned" /\ rowparse.result.outcome = "record") =>
        \A i \in MIN_ROW_CELLS..(Len(rowparse.cells) - 1) :
            rowparse.result.composition_data[At(rowparse.column_names, i)] =
                IF C25Numeric(C27Cell(i)) THEN Value("float", FloatOf(Cleaned(C27Cell(i))))
                ELSE Value("float", Zero)


(***************************************************************************)
(* Claims on the dry run of the sync.                                      *)
(***************************************************************************)
\* the tables of the two stores
C28Tables ==
    <<mt_stores, mt_equity_package_sales, mt_business_summary, mt_dish_sales,
      sb_equity_package_sales, sb_business_summary, sb_dish_sales>>

\* the records that the step of the dry run found to transfer
C28Missing ==
    IF sync'.op = "pull_equity_package_sales" THEN MissingLocallyEquity
    ELSE IF sync'.op = "pull_business_summary" THEN MissingLocallyBusiness
    ELSE IF sync'.op = "push_equity_package_sales" THEN MissingRemotelyEquity
    ELSE MissingRemotelyBusiness

\* C28: a pull or a push of a dry run writes no record to the local store
\* and none to the remote store and hands nothing to a write path; it stores
\* the number of records it would transfer (when its reads return).
C28_DryRunWritesNothing ==
    [][(sync.pc # "saving" /\ sync'.dry_run) =>
          /\ C28Tables' = C28Tables
          /\ sync'.handed = {}
          /\ sync'.pc = "done"
          /\ rsave' = rsave
          /\ (sync'.source_ok /\ sync'.keys_ok) =>
                 sync'.count = IF C28Missing = {} THEN Unset
                               ELSE Cardinality(C28Missing)]_vars

\* a dry run of a pull has found one remote record that the local store does
\* not hold, and the local table is still empty
C28_Witness ==
    /\ sync.op = "pull_equity_package_sales"
    /\ sync.dry_run
    /\ sync.pc = "done"
    /\ sync.source_ok /\ sync.keys_ok
    /\ mt_equity_package_sales = {}
    /\ Cardinality(MissingLocallyEquity) = 1


(***************************************************************************)
(* Claims on the retries of main.                                          *)
(***************************************************************************)
\* C30: a report is given up only after a retry: every result without
\* success, whether its first attempt ended with a failed navigation, a
\* failed crawl result or an exception of any kind, holds at least two
\* attempts.
C30_RetriedBeforeGivenUp ==
    \A k \in 1..Len(orch.all_results) :
        ~orch.all_results[k].success => Len(orch.all_results[k].tried) >= 2

\* what the loop does: a failed crawl result and a timeout are followed by a
\* retry, a timeout by up to two; no report has more than MAX_RETRIES
\* attempts; a failed navigation and any other exception end the report
C30_FailedResultAndTimeoutRetried ==
    \A k \in 1..Len(orch.all_results) :
        LET tried == orch.all_results[k].tried
        IN  /\ Len(tried) <= MAIN_MAX_RETRIES
            /\ tried[1] \in {"failed", "timeout"} => Len(tried) >= 2
            /\ \A j \in 1..(Len(tried) - 1) : tried[j] \in {"failed", "timeout"}
            /\ (Len(tried) = MAIN_MAX_RETRIES) => tried[2] = "timeout"


\* the stages of an attempt the retry of timeouts is stated for
C31Stages == {"navigation", "filters", "extraction"}

\* the attempt that ended report k was hit by a timeout in one of the stages
C31EndedByTimeout(k) ==
    LET events == orch.all_results[k].events
    IN  /\ events[Len(events)].kind = "timeout"
        /\ events[Len(events)].stage \in C31Stages

\* C31: a report whose attempts are hit by a timeout in navigation, filter
\* configuration or extraction is tried again from navigation until an
\* attempt passes or 3 attempts are made: a report is never left at an
\* attempt with such a timeout before the third; and no report has more
\* than 3 attempts.
C31_TimeoutsRetriedUpToThree ==
    \A k \in 1..Len(orch.all_results) :
        /\ Len(orch.all_results[k].tried) <= MAIN_MAX_RETRIES
        /\ C31EndedByTimeout(k) => Len(orch.all_results[k].tried) = MAIN_MAX_RETRIES

\* what the loop does with timeouts: no report has more than 3 attempts; a
\* timeout in navigation ends the report at that attempt with the
\* AttributeError of the except clause; a timeout in filter configuration
\* is a failed result, never tried a third time; a timeout in extraction
\* ends the report as a success; only a timeout main's except clause
\* receives is retried up to the third attempt
C31_WhereTimeoutsGo ==
    /\ orch.attempt < MAIN_MAX_RETRIES
    /\ \A k \in 1..Len(orch.all_results) :
        LET r == orch.all_results[k]
            last == r.events[Len(r.events)]
        IN  /\ Len(r.tried) <= MAIN_MAX_RETRIES
            /\ \A j \in 1..(Len(r.events) - 1) : r.events[j].stage # "navigation"
            /\ (last.stage = "navigation" /\ last.kind = "timeout")
                   => ~r.success /\ r.error = AttributeErrorText
            /\ last.stage = "filters"
                   => ~r.success /\ Len(r.tried) >= 2 /\ r.error = "Filter configuration failed"
            /\ last.stage = "extraction" => r.success
            /\ (last.stage = "main" /\ last.kind = "timeout")
                   => Len(r.tried) = MAIN_MAX_RETRIES /\ r.error = TimeoutText


\* C32: in the result of a report, success true implies that error is
\* empty: a report that succeeds on a retry does not carry the error
\* message of an earlier failed attempt.
C32_SuccessHasNoError ==
    \A k \in 1..Len(orch.all_results) :
        orch.all_results[k].success => orch.all_results[k].error = None

\* what the loop does: success is true exactly when the last attempt was a
\* success, and the error of a successful report is the error of the failed
\* result of its earlier attempt, if it had one; a timeout that was retried
\* leaves no error
C32_ErrorOfEarlierAttemptKept ==
    \A k \in 1..Len(orch.all_results) :
        LET r == orch.all_results[k]
        IN  /\ r.success <=> r.tried[Len(r.tried)] = "success"
            /\ r.success =>
                 r.error = (IF \E j \in 1..(Len(r.tried) - 1) : r.tried[j] = "failed"
                            THEN crawler_crawl(
                                   r.events[CHOOSE j \in 1..(Len(r.tried) - 1) :
                                                r.tried[j] = "failed"]).error
                            ELSE None)


\* a pull or a push is taken whose read of the destination keys fails
C33KeysFail ==
    /\ sync.pc # "saving"
    /\ sync'.source_ok
    /\ ~sync'.keys_ok

\* C33: if reading the key set of the destination fails during a sync step,
\* the step hands no record over in that direction: the failure is not
\* taken for an empty destination.
C33_NothingTransferredWhenKeysFail == [][C33KeysFail => sync'.handed = {}]_vars

\* what the steps do: outside a dry run, a step whose read of the
\* destination keys fails hands over what it would hand to an empty
\* destination, every record of the source that has a key
C33_FailureIsAnEmptyDestination ==
    [][(C33KeysFail /\ ~sync'.dry_run) =>
          /\ sync'.op = "pull_equity_package_sales"
                => sync'.handed = PullEquityToAdd(sb_equity_package_sales, {})
          /\ sync'.op = "pull_business_summary"
                => sync'.handed = PullBusinessToAdd(sb_business_summary, {})
          /\ sync'.op = "push_equity_package_sales"
                => sync'.handed = GetEquitySales(mt_stores, mt_equity_package_sales)
          /\ sync'.op = "push_business_summary"
                => sync'.handed = mt_business_summary]_vars


\* the pass of the remote equity save that is taken counts its record as
\* inserted
C34Inserts ==
    /\ rsave.pc = "record"
    /\ rsave.op = "save_equity_package_sales"
    /\ rsave'.stats.inserted = rsave.stats.inserted + 1

\* the remote rows with the key of the record of the pass
C34Existing ==
    RemoteEquityMatches(sb_equity_package_sales,
                        DictGet(cache.codes, rsave.records[rsave.i + 1].org_code),
                        rsave.records[rsave.i + 1])

\* C34: in the remote equity-package-sales save a record is inserted only
\* when no remote row has its key: a lookup that fails does not lead to an
\* insert, and an existing remote key never gets a second row.
C34_InsertOnlyWhenAbsent ==
    [][C34Inserts =>
          /\ C34Existing = {}
          /\ \A r1, r2 \in sb_equity_package_sales' :
                (/\ r1.restaurant_id = r2.restaurant_id
                 /\ r1.date = r2.date
                 /\ r1.package_name = r2.package_name) => r1 = r2]_vars

\* what the save does: a pass that counts its record as inserted adds one
\* row with the key of the record, whether or not the key had a row
C34_InsertAddsARow ==
    [][C34Inserts =>
          /\ Cardinality(sb_equity_package_sales') = Cardinality(sb_equity_package_sales) + 1
          /\ sb_equity_package_sales \subseteq sb_equity_package_sales'
          /\ Cardinality(RemoteEquityMatches(sb_equity_package_sales',
                             DictGet(cache.codes, rsave.records[rsave.i + 1].org_code),
                             rsave.records[rsave.i + 1]))
                = Cardinality(C34Existing) + 1]_vars


RECURSIVE C35Serial(_, _)
\* the stores and the rows that the committed calls give when they are made
\* one after the other, in the order of `order`, on the empty store
C35Serial(order, k) ==
    IF k = 0 THEN [stores |-> {}, table |-> {}, stats |-> ZeroStats]
    ELSE LET before == C35Serial(order, k - 1)
         IN  EquitySaved(before.stores, before.table, <<threads.job[order[k]].record>>)

\* C35: local write calls made at the same time by different threads for one
\* key leave the store as the calls made one after the other would: the
\* rows are those of the serial run in the order of the commits, so no
\* update is lost, and the key has one row at most.
C35_SerialOutcome ==
    /\ mt_equity_package_sales = C35Serial(threads.order, Len(threads.order)).table
    /\ mt_stores = C35Serial(threads.order, Len(threads.order)).stores
    /\ \A r1, r2 \in mt_equity_package_sales :
          (/\ r1.org_code = r2.org_code
           /\ r1.date = r2.date
           /\ r1.package_name = r2.package_name) => r1 = r2

\* both threads have committed a record of the key, the second a higher one
\* that replaced the row of the first, while the call of the first has not
\* returned yet
C35_Witness ==
    /\ threads.order = <<"t1", "t2">>
    /\ threads.pc["t1"] = "finally"
    /\ threads.job["t1"].record.quantity_sold = 0
    /\ threads.job["t2"].record.quantity_sold = 1
    /\ threads.job["t2"].existing # {}
    /\ mt_equity_package_sales = {EquityRow(threads.job["t2"].record)}


\* the polls of one round: the passes of the loop until elapsed reaches
\* max_wait
C37PollsPerRound == (max_wait + wait_interval - 1) \div wait_interval

\* C37: the wait returns success whenever one of its polls found the result
\* marker, returns failure only when no poll found it, and ends after at
\* most three rounds of polls, the first and two after a new query.
C37_SuccessIffMarkerSeen ==
    /\ wait.polls <= (max_retries + 1) * C37PollsPerRound
    /\ wait.retry_count <= max_retries
    /\ wait.pc = "returned" => (wait.result = "True" <=> wait.seen)

\* what the wait does: it ends within three rounds, it returns success only
\* when a poll found the marker, and it returns failure for a marker found
\* by the poll that brings elapsed to max_wait or beyond
C37_MarkerAtLastPollIsFailure ==
    /\ wait.polls <= (max_retries + 1) * C37PollsPerRound
    /\ wait.retry_count <= max_retries
    /\ wait.pc = "returned" =>
          (wait.result = "True" <=> (wait.seen /\ wait.elapsed < max_wait))
    /\ wait.pc = "polling" => ~wait.seen /\ wait.elapsed < max_wait


\* C36: the extraction reads each page 1..total_pages once and in order,
\* and reads a page only after the navigation to it succeeded: the rows
\* read in pass k are those of page k, never those of the page that stayed
\* displayed after a failed navigation.
C36_EachPageReadOnce ==
    /\ \A k \in 1..Len(pages.read) :
          /\ pages.read[k].page_num = k
          /\ pages.read[k].nav_ok
          /\ pages.read[k].shown = k
    /\ pages.pc = "returned" => Len(pages.read) = pages.total_pages

\* what the loop does: it makes total_pages passes in order, and each pass
\* extracts the displayed page, which is page k when the navigation to it
\* succeeded, and else the page of the pass before, read once more
C36_DisplayedPageIsRead ==
    /\ \A k \in 1..Len(pages.read) :
          /\ pages.read[k].page_num = k
          /\ pages.read[k].nav_ok => pages.read[k].shown = k
          /\ (~pages.read[k].nav_ok /\ k > 1) => pages.read[k].shown = pages.read[k - 1].shown
    /\ pages.pc = "returned" => Len(pages.read) = pages.total_pages


\* the positions of the cells beyond the fixed columns, counted from 0
C38Beyond == MIN_ROW_CELLS..(Len(rowparse.cells) - 1)

\* C38: every cell of a row beyond the fixed columns is in the composition
\* payload of the record under its flattened column name, also when the
\* header list is shorter than the row and when two columns flatten to the
\* same name: no such cell is dropped.
C38_EveryTrailingCellKept ==
    rowparse.result.outcome = "record" =>
        \A i \in C38Beyond :
            /\ i < Len(rowparse.column_names)
            /\ At(rowparse.column_names, i) \in DOMAIN rowparse.result.composition_data
            /\ rowparse.result.composition_data[At(rowparse.column_names, i)]
                  = Value("float", parse_number(At(rowparse.cells, i)))

\* what _parse_row keeps: the cells at positions that have a header, under
\* the names of those positions, one entry per name with the value of the
\* last cell of that name; a cell beyond the header list and a cell whose
\* name comes again later have no entry
C38_LastCellPerNameKept ==
    rowparse.result.outcome = "record" =>
        LET named == {i \in C38Beyond : i < Len(rowparse.column_names)}
            data == rowparse.result.composition_data
        IN  /\ DOMAIN data = {At(rowparse.column_names, i) : i \in named}
            /\ \A i \in named :
                  (\A j \in named : At(rowparse.column_names, j) = At(rowparse.column_names, i)
                                        => j <= i)
                      => data[At(rowparse.column_names, i)]
                             = Value("float", parse_number(At(rowparse.cells, i)))

====
